---- MODULE Spec2Model ----
(***************************************************************************)
(* State-machine model of the nist_ai ingestion backend:                   *)
(*   - Repository (src/src/backend/repository.py): get_video, get_audio,   *)
(*     save_data, query_video_path_by_id on one shared ORM session;        *)
(*   - process_video (src/src/backend/end_to_end.py) with the LogTime      *)
(*     context manager (src/src/backend/utils.py);                         *)
(*   - WhisperConfig.__post_init__ (src/job_config.py).                    *)
(***************************************************************************)
EXTENDS Integers, Sequences, FiniteSets, TLC

VARIABLES
    db,               \* committed rows of all tables
    pending,          \* rows held by the Repository's session, not committed
    nextId,           \* next identity value of the video and audio tables
    calls,            \* log of the save_data calls made so far
    lastCall,         \* outcome of the last read operation
    cascade_backrefs, \* the ORM cascades a child into its parent's session
    pc,               \* process_video: the stage about to run
    trace,            \* process_video: the stage calls made in this run
    locals,           \* process_video: its local variables
    runs,             \* process_video runs started so far
    dbAtStart,        \* the committed rows when the current run started
    dirs,             \* the directories that exist
    cfg,              \* outcome of the last WhisperConfig construction
    job_config,       \* process_video: the EndToEndConfig of the run
    files,            \* the file system: what is stored at each path
    whisper,          \* the whisper package can be imported
    ret,              \* outcome of the last call of a processing function
    tx                \* concurrent ingestion: the state of each run

repoVars == <<db, pending, nextId, calls, cascade_backrefs>>
pipeVars == <<pc, trace, locals, runs, dbAtStart, job_config>>
cfgVars == <<dirs, cfg>>
envVars == <<files, whisper>>
callVars == <<ret>>

vars == <<repoVars, lastCall, pipeVars, cfgVars, envVars, callVars, tx>>

-----------------------------------------------------------------------------
(* Bounds and input sets *)

MaxCalls == 3

MaxLookupCalls == 2

MaxRuns == 2

\* Python's None and Optional values: <<>> is None, <<v>> is the value v.
None == <<>>
Some(v) == <<v>>

\* Checksums a payload may carry (the empty string is a legal str).
Checksums == {"", "c1", "c2"}

\* The bodies a payload may carry: text_segments_dicts as one entry per
\* segment giving its number of words, and the length of gps_kwargs.
\* One body is empty; the other has a segment of two words, a segment
\* without words and two GPS samples.
Bodies == {[segs |-> <<>>, ngps |-> 0], [segs |-> <<2, 0>>, ngps |-> 2]}

Payloads ==
    {[vcs |-> v, acs |-> a, segs |-> b.segs, ngps |-> b.ngps] :
        v \in Checksums, a \in Checksums, b \in Bodies}

-----------------------------------------------------------------------------
(* Rows *)

NoParent == <<>>

Key(o) == <<o.kind, o.run, o.i, o.j>>

\* The file name the n-th save_data call supplies in video_kwargs and
\* audio_kwargs: every call names its files differently.
FileNames == <<"f1", "f2", "f3", "f4", "f5", "f6">>

Row(kind, run, i, j, id, checksum, parent) ==
    [kind |-> kind, run |-> run, i |-> i, j |-> j, id |-> id,
     checksum |-> checksum, parent |-> parent,
     filename |-> IF kind \in {"video", "audio"} THEN FileNames[run] ELSE ""]

\* What a query on the session sees: the session autoflushes its pending
\* rows into its transaction before every SELECT.
VisibleRows == db \cup pending

RowsOf(rows, kind) == {o \in rows : o.kind = kind}

-----------------------------------------------------------------------------
(* get_video / get_audio *)

\* Python truthiness of an Optional[int] / Optional[str].
TruthyInt(x) == x # None /\ x[1] # 0
TruthyStr(x) == x # None /\ x[1] # ""

SelectById(rows, kind, id) == {o \in RowsOf(rows, kind) : o.id = id}

\* (a lookup that matches nothing)
SelectByChecksumMissing(rows, kind, checksum) == {}
\* (a lookup without its where clause)
SelectByChecksumAnyRow(rows, kind, checksum) == RowsOf(rows, kind)
SelectByChecksum(rows, kind, checksum) ==
    {o \in RowsOf(rows, kind) : o.checksum = checksum}

\* Result.one_or_none()
OneOrNone(matches) ==
    IF matches = {} THEN [exc |-> "none", queried |-> TRUE, row |-> None, value |-> ""]
    ELSE IF Cardinality(matches) = 1
         THEN [exc |-> "none", queried |-> TRUE,
               row |-> Some(CHOOSE o \in matches : TRUE), value |-> ""]
         ELSE [exc |-> "MultipleResultsFound", queried |-> TRUE, row |-> None,
               value |-> ""]

Raised(exc) == [exc |-> exc, queried |-> FALSE, row |-> None, value |-> ""]

\* (a check of both_given alone)
SelectorErrorBothOnly(id, checksum) == id # None /\ checksum # None
SelectorError(id, checksum) ==
    LET both_none == id = None /\ checksum = None
        both_given == id # None /\ checksum # None
    IN both_given \/ both_none

GetRow(kind, id, checksum, rows) ==
    IF SelectorError(id, checksum) THEN Raised("ValueError")
    ELSE IF TruthyStr(checksum)
         THEN OneOrNone(SelectByChecksum(rows, kind, checksum[1]))
         ELSE IF TruthyInt(id)
              THEN OneOrNone(SelectById(rows, kind, id[1]))
              ELSE Raised("UnboundLocalError")

get_video(video_id, checksum, rows) == GetRow("video", video_id, checksum, rows)

get_audio(audio_id, checksum, rows) == GetRow("audio", audio_id, checksum, rows)

-----------------------------------------------------------------------------
(* save_data *)

RECURSIVE SegRowsUnderLast(_, _, _)
\* (every word built after the loop over the segments, with the
\* text_segment variable the loop left: the last segment's)
SegRowsUnderLast(run, segs, i) ==
    IF i > Len(segs) THEN <<>>
    ELSE <<Row("text_segment", run, i, 0, 0, "", <<"transcription", run, 0, 0>>)>>
         \o [j \in 1..segs[i] |->
                Row("word_segment", run, i, j, 0, "",
                    <<"text_segment", run, Len(segs), 0>>)]
         \o SegRowsUnderLast(run, segs, i + 1)
RECURSIVE SegRows(_, _, _)
\* The TextSegment / WordSegment constructions of the loop over
\* text_segments_dicts, in the order the loop performs them.
SegRows(run, segs, i) ==
    IF i > Len(segs) THEN <<>>
    ELSE <<Row("text_segment", run, i, 0, 0, "", <<"transcription", run, 0, 0>>)>>
         \o [j \in 1..segs[i] |->
                Row("word_segment", run, i, j, 0, "", <<"text_segment", run, i, 0>>)]
         \o SegRows(run, segs, i + 1)

\* (no GPS rows built for a video that has some: the log kept once)
GpsRowsOnce(run, ngps, video) ==
    IF \E g \in RowsOf(db, "gps") : g.parent = Key(video)
    THEN <<>>
    ELSE [k \in 1..ngps |-> Row("gps", run, k, 0, 0, "", Key(video))]
\* gps_coords = list(map(lambda kwargs: self.GPS(video=video, **kwargs), ...))
GpsRows(run, ngps, video) ==
    [k \in 1..ngps |-> Row("gps", run, k, 0, 0, "", Key(video))]

\* The video / audio the call works with: the row found, else a new one.
ResolvedVideo(run, payload, found) ==
    IF found = None
    THEN Row("video", run, 0, 0, nextId.video, payload.vcs, NoParent)
    ELSE found[1]

ResolvedAudio(run, payload, found, video) ==
    IF found = None
    THEN Row("audio", run, 0, 0, nextId.audio, payload.acs, Key(video))
    ELSE found[1]

\* (a video that is found takes the file name of the payload and is
\* written back)
ConstructionsUpdatingFound(run, payload, foundVideo, foundAudio) ==
    LET video == ResolvedVideo(run, payload, foundVideo)
        audio == ResolvedAudio(run, payload, foundAudio, video)
    IN <<[video EXCEPT !.filename = FileNames[run]]>>
       \o (IF foundAudio = None THEN <<audio>> ELSE <<>>)
       \o <<Row("transcription", run, 0, 0, 0, "", Key(audio))>>
       \o SegRows(run, payload.segs, 1)
       \o GpsRows(run, payload.ngps, video)
\* Every row object the call constructs, in construction order.
Constructions(run, payload, foundVideo, foundAudio) ==
    LET video == ResolvedVideo(run, payload, foundVideo)
        audio == ResolvedAudio(run, payload, foundAudio, video)
    IN (IF foundVideo = None THEN <<video>> ELSE <<>>)
       \o (IF foundAudio = None THEN <<audio>> ELSE <<>>)
       \o <<Row("transcription", run, 0, 0, 0, "", Key(audio))>>
       \o SegRows(run, payload.segs, 1)
       \o GpsRows(run, payload.ngps, video)

RECURSIVE Cascaded(_, _, _)
\* Keys of the rows in the session after the first n constructions, when
\* assigning a parent that is in the session puts the child there too.
\* The relationships are generated by automap with backrefs; SQLAlchemy 1.4
\* cascades a child into the session of the parent it is assigned (the
\* cascade_backrefs default), SQLAlchemy 2.0 does not, and the code runs
\* on both: cascade_backrefs is either, fixed for a run of the program.
Cascaded(plan, n, inSession) ==
    IF n = 0 THEN inSession
    ELSE LET before == Cascaded(plan, n - 1, inSession)
         IN IF plan[n].parent \in before
            THEN before \cup {Key(plan[n])}
            ELSE before

Range(seq) == {seq[k] : k \in 1..Len(seq)}

\* The places where a call can raise: 0 is nowhere, n the n-th construction,
\* and one more than the number of constructions the commit.
FaultPoints ==
    LET lens == {Len(Constructions(1, p, None, None)) : p \in Payloads}
    IN 0..((CHOOSE n \in lens : \A m \in lens : m <= n) + 1)

LogCall(exc) == calls' = Append(calls, exc)

\* One call of Repository.save_data.  fault = 0: nothing raises;
\* fault = n <= number of constructions: the n-th constructor raises;
\* fault = number of constructions + 1: session.commit() raises.
SaveData(payload, fault) ==
    /\ LET run == Len(calls) + 1
           v == get_video(None, Some(payload.vcs), VisibleRows)
           a == get_audio(None, Some(payload.acs), VisibleRows)
       IN IF v.exc # "none"
          THEN /\ fault = 0
               /\ LogCall(v.exc)
               /\ UNCHANGED <<db, pending, nextId>>
          ELSE IF a.exc # "none"
          THEN /\ fault = 0
               /\ LogCall(a.exc)
               /\ UNCHANGED <<db, pending, nextId>>
          ELSE LET plan == Constructions(run, payload, v.row, a.row)
                   video == ResolvedVideo(run, payload, v.row)
                   audio == ResolvedAudio(run, payload, a.row, video)
                   loaded == (IF v.row = None THEN {} ELSE {Key(video)})
                             \cup (IF a.row = None THEN {} ELSE {Key(audio)})
               IN /\ fault \in 0..(Len(plan) + 1)
                  /\ IF fault \in 1..Len(plan)
                     THEN \* a constructor raises: no add(), no commit(), no rollback()
                          LET kept == IF cascade_backrefs
                                      THEN Cascaded(plan, fault - 1, loaded)
                                      ELSE {}
                              left == {plan[k] : k \in {m \in 1..(fault - 1) : Key(plan[m]) \in kept}}
                          IN /\ pending' = pending \cup left
                             /\ db' = db
                             /\ nextId' = [nextId EXCEPT
                                   !.audio = IF audio \in left THEN @ + 1 ELSE @]
                             /\ LogCall("ConstructionError")
                     ELSE \* every item is added to the session, then commit()
                          LET added == pending \cup Range(plan)
                          IN /\ nextId' = [video |-> IF v.row = None THEN nextId.video + 1
                                                     ELSE nextId.video,
                                           audio |-> IF a.row = None THEN nextId.audio + 1
                                                     ELSE nextId.audio]
                             /\ IF fault = 0
                                THEN /\ db' = db \cup added
                                     /\ pending' = {}
                                     /\ LogCall("none")
                                ELSE \* commit() rolls the transaction back and re-raises
                                     /\ db' = db
                                     /\ pending' = {}
                                     /\ LogCall("CommitError")
    /\ UNCHANGED <<lastCall, cascade_backrefs, cfgVars, callVars, tx>>

-----------------------------------------------------------------------------
(* Read operations called on the Repository *)

\* The keyword parameters get_video accepts.
GetVideoKeywords == {"video_id", "checksum"}

KeywordOr(kwargs, name, default) ==
    IF name \in DOMAIN kwargs THEN kwargs[name] ELSE default

\* A call self.get_video(**kwargs): Python rejects an unknown keyword
\* before the body runs.
CallGetVideo(kwargs, rows) ==
    IF ~(DOMAIN kwargs \subseteq GetVideoKeywords)
    THEN Raised("TypeError")
    ELSE get_video(KeywordOr(kwargs, "video_id", None),
                   KeywordOr(kwargs, "checksum", None), rows)

query_video_path_by_id(video_id, rows) ==
    LET val == CallGetVideo([k \in {"id"} |-> Some(video_id)], rows)
    IN IF val.exc # "none" THEN val
       ELSE IF val.row # None
            THEN [val EXCEPT !.value = val.row[1].filename]
            ELSE [val EXCEPT !.value = ""]

Ids == {None} \cup {Some(n) : n \in 0..1}
OptChecksums == {None} \cup {Some(c) : c \in Checksums}

GetVideoCall ==
    \E video_id \in Ids, checksum \in OptChecksums :
        /\ lastCall' = [op |-> "get_video", id |-> video_id, checksum |-> checksum,
                        result |-> get_video(video_id, checksum, VisibleRows)]
        /\ UNCHANGED <<repoVars, pipeVars, cfgVars, envVars, callVars, tx>>

GetAudioCall ==
    \E audio_id \in Ids, checksum \in OptChecksums :
        /\ lastCall' = [op |-> "get_audio", id |-> audio_id, checksum |-> checksum,
                        result |-> get_audio(audio_id, checksum, VisibleRows)]
        /\ UNCHANGED <<repoVars, pipeVars, cfgVars, envVars, callVars, tx>>

QueryVideoPathByIdCall ==
    \E video_id \in Ids \ {None} :
        /\ lastCall' = [op |-> "query_video_path_by_id", id |-> video_id,
                        checksum |-> None,
                        result |-> query_video_path_by_id(video_id[1], VisibleRows)]
        /\ UNCHANGED <<repoVars, pipeVars, cfgVars, envVars, callVars, tx>>

-----------------------------------------------------------------------------
(* WhisperConfig *)

valid_model_names ==
    {"tiny", "tiny.en", "base", "base.en", "small", "small.en",
     "medium", "medium.en", "large"}

ModelNames == valid_model_names \cup {"huge"}

Locations == {".", "models", "cache"}

\* WhisperConfig.__post_init__: the file-system operations it performs,
\* in order, and the exception it ends with.
post_init(model_name, download_location, existing) ==
    LET missing == download_location \notin existing
        ops == IF missing THEN <<"exists", "makedirs">> ELSE <<"exists">>
    IN [model_name |-> model_name,
        download_location |-> download_location,
        fsops |-> ops,
        exc |-> IF model_name \notin valid_model_names THEN "ValueError" ELSE "none"]

NoConfig == [model_name |-> "", download_location |-> "", exc |-> "none",
             fsops |-> <<>>]

WhisperConfigInit ==
    \E model_name \in ModelNames, download_location \in Locations :
        /\ cfg' = post_init(model_name, download_location, dirs)
        /\ dirs' = IF "makedirs" \in Range(cfg'.fsops)
                   THEN dirs \cup {download_location}
                   ELSE dirs
        /\ UNCHANGED <<repoVars, lastCall, pipeVars, envVars, callVars, tx>>

-----------------------------------------------------------------------------
(* The file system and the media functions *)

Paths == {"video.mp4", "audio.mp3", "gps.csv"}

MaxFileLen == 2

RECURSIVE BytesUpTo(_)
\* The byte strings of at most n bytes (a byte is 0 or 1 here).
BytesUpTo(n) ==
    IF n = 0 THEN {<<>>}
    ELSE BytesUpTo(n - 1)
         \cup {Append(d, b) : d \in {e \in BytesUpTo(n - 1) : Len(e) = n - 1},
                              b \in 0..1}

FileBytes == BytesUpTo(MaxFileLen)

\* os.path.exists(path)
exists(path, fs) == fs[path] # None

\* What `ffmpeg.input(video_path).output(audio_path).run(...)` does when it
\* is reached: it writes the audio stream of the video to audio_path, or
\* the tool fails and run() raises ffmpeg.Error.
ToolOutcomes == {"ok", "Error"}

\* The audio stream of a video file: the file without its leading stream.
AudioStream(data) == SubSeq(data, 2, Len(data))

ffmpeg_run(video_path, audio_path, fs, tool) ==
    IF tool = "ok"
    THEN [exc |-> "none",
          files |-> [fs EXCEPT ![audio_path] = Some(AudioStream(fs[video_path][1]))]]
    ELSE [exc |-> "ffmpeg.Error", files |-> fs]

\* (the existence of the audio file tested before that of the video)
extract_audio_skip_first(video_path, audio_path, overwrite, fs, tool) ==
    IF exists(audio_path, fs) /\ ~overwrite
    THEN [exc |-> "none", ran |-> FALSE, files |-> fs]
    ELSE IF ~exists(video_path, fs)
         THEN [exc |-> "FileNotFoundError", ran |-> FALSE, files |-> fs]
         ELSE LET out == ffmpeg_run(video_path, audio_path, fs, tool)
              IN [exc |-> out.exc, ran |-> TRUE, files |-> out.files]
\* extract_audio: the exception raised, whether the extraction was run,
\* and the file system it leaves.
extract_audio(video_path, audio_path, overwrite, fs, tool) ==
    IF ~exists(video_path, fs)
    THEN [exc |-> "FileNotFoundError", ran |-> FALSE, files |-> fs]
    ELSE IF exists(audio_path, fs) /\ ~overwrite
         THEN [exc |-> "none", ran |-> FALSE, files |-> fs]
         ELSE LET out == ffmpeg_run(video_path, audio_path, fs, tool)
              IN [exc |-> out.exc, ran |-> TRUE, files |-> out.files]

get_metadata(video_path, fs, tool) ==
    IF ~exists(video_path, fs) THEN "FileNotFoundError"
    ELSE IF tool = "ok" THEN "none" ELSE "ffmpeg.Error"

\* get_thumbnail: the frame of the video at `time`, scaled to `width`.
get_thumbnail(video_path, width, time) ==
    [video |-> video_path, width |-> width, time |-> time]

RECURSIVE md5(_)
\* hashlib.md5(data).hexdigest(): a digest of the bytes read, here the
\* bytes folded into four bits.
md5(data) ==
    IF data = <<>> THEN 5
    ELSE (3 * md5(SubSeq(data, 1, Len(data) - 1)) + data[Len(data)] + 1) % 16

\* (a digest that also covers the name of the file)
get_checksum_of_name(file_name, fs) ==
    IF ~exists(file_name, fs)
    THEN [exc |-> "FileNotFoundError", data |-> None, value |-> None]
    ELSE LET data == fs[file_name][1]
         IN [exc |-> "none", data |-> Some(data),
             value |-> Some((md5(data) + IF file_name = "audio.mp3" THEN 1 ELSE 0) % 16)]
\* get_checksum: the exception raised, the bytes read and the digest.
get_checksum(file_name, fs) ==
    IF ~exists(file_name, fs)
    THEN [exc |-> "FileNotFoundError", data |-> None, value |-> None]
    ELSE LET data == fs[file_name][1]
         IN [exc |-> "none", data |-> Some(data), value |-> Some(md5(data))]

\* The paths the media functions are called with.
MediaPaths == {"video.mp4", "audio.mp3"}

NoRet == [op |-> "none", exc |-> "none", earlier |-> None]

\* The last digest get_checksum returned before the call being made.
Earlier ==
    IF ret.op = "get_checksum" /\ ret.exc = "none"
    THEN Some([file_name |-> ret.file_name, data |-> ret.data[1],
               value |-> ret.value[1]])
    ELSE ret.earlier

ExtractAudioCall ==
    \E video_path \in MediaPaths, audio_path \in MediaPaths,
       overwrite \in BOOLEAN, tool \in ToolOutcomes :
        LET out == extract_audio(video_path, audio_path, overwrite, files, tool)
        IN /\ files' = out.files
           /\ ret' = [op |-> "extract_audio", video_path |-> video_path,
                      audio_path |-> audio_path, overwrite |-> overwrite,
                      exc |-> out.exc, ran |-> out.ran, earlier |-> Earlier]
           /\ UNCHANGED <<repoVars, lastCall, pipeVars, cfgVars, whisper, tx>>

GetChecksumCall ==
    \E file_name \in MediaPaths :
        LET out == get_checksum(file_name, files)
        IN /\ ret' = [op |-> "get_checksum", file_name |-> file_name,
                      exc |-> out.exc, data |-> out.data, value |-> out.value,
                      earlier |-> Earlier]
           /\ UNCHANGED <<repoVars, lastCall, pipeVars, cfgVars, envVars, tx>>

-----------------------------------------------------------------------------
(* GPS files *)

VideoType == {"GOPRO", "TRACK_ADDICT"}

\* A CSV file: its header and its lines, a line being a comment (it starts
\* with #) or a data row with one cell per column of the header.
CommentLine == [comment |-> TRUE, cells |-> <<>>]

TrackAddictColumns ==
    <<"Time", "UTC Time", "Latitude", "Longitude", "Altitude (m)", "Speed (Km/h)">>

\* dtype= of the read_csv call
TrackAddictDtype ==
    [c \in Range(TrackAddictColumns) |->
        IF c \in {"Altitude (m)", "Speed (Km/h)"} THEN "float32" ELSE "float64"]

\* (latitude and longitude exchanged)
TrackAddictRenameSwapped ==
    [c \in Range(TrackAddictColumns) |->
        CASE c = "Time" -> "relative_time"
          [] c = "UTC Time" -> "utc_time"
          [] c = "Latitude" -> "longitude"
          [] c = "Longitude" -> "latitude"
          [] c = "Altitude (m)" -> "altitude_m"
          [] c = "Speed (Km/h)" -> "speed_kmh"]
\* columns= of the rename call
TrackAddictRename ==
    [c \in Range(TrackAddictColumns) |->
        CASE c = "Time" -> "relative_time"
          [] c = "UTC Time" -> "utc_time"
          [] c = "Latitude" -> "latitude"
          [] c = "Longitude" -> "longitude"
          [] c = "Altitude (m)" -> "altitude_m"
          [] c = "Speed (Km/h)" -> "speed_kmh"]

\* Conversion of a parsed number to the dtype of its column.  The numbers
\* of the model are non-negative integers: a double holds them exactly, a
\* single holds 24 bits of them and rounds the rest to even.
Cast(dtype, v) ==
    IF dtype = "float64" \/ v < 2^24 THEN v
    ELSE IF v % 2 = 0 THEN v
         ELSE IF ((v - 1) \div 2) % 2 = 0 THEN v - 1 ELSE v + 1

DataLines(content) == SelectSeq(content.lines, LAMBDA l : ~l.comment)

Position(header, name) == CHOOSE k \in 1..Len(header) : header[k] = name

\* pd.read_csv(path, comment="#", dtype=dtype, usecols=usecols): a frame
\* with the columns of usecols in the order of the file, one row per data
\* line; ValueError when a column of usecols is not in the header.
read_csv(content, usecols, dtype) ==
    IF \E c \in Range(usecols) : c \notin Range(content.header)
    THEN [exc |-> "ValueError", frame |-> None]
    ELSE LET data == DataLines(content)
         IN [exc |-> "none",
             frame |-> Some(
                [columns |-> SelectSeq(content.header,
                                       LAMBDA c : c \in Range(usecols)),
                 rows |-> [k \in 1..Len(data) |->
                             [c \in Range(usecols) |->
                                 Cast(dtype[c],
                                      data[k].cells[Position(content.header, c)])]]])]

\* DataFrame.rename(columns=columns)
rename(frame, columns) ==
    LET new(c) == IF c \in DOMAIN columns THEN columns[c] ELSE c
        old(n, row) == CHOOSE c \in DOMAIN row : new(c) = n
    IN [columns |-> [k \in 1..Len(frame.columns) |-> new(frame.columns[k])],
        rows |-> [k \in 1..Len(frame.rows) |->
                    [n \in {new(c) : c \in DOMAIN frame.rows[k]} |->
                        frame.rows[k][old(n, frame.rows[k])]]]]

parse_trackaddict_gps(gps_csv_path, fs) ==
    IF ~exists(gps_csv_path, fs)
    THEN [exc |-> "FileNotFoundError", frame |-> None]
    ELSE LET read == read_csv(fs[gps_csv_path][1], TrackAddictColumns,
                              TrackAddictDtype)
         IN IF read.exc # "none" THEN read
            ELSE [exc |-> "none",
                  frame |-> Some(rename(read.frame[1], TrackAddictRename))]

\* (every variant handed to the TrackAddict parser)
parse_gps_file_any_type(gps_file_path, video_type, fs) ==
    parse_trackaddict_gps(gps_file_path, fs)
parse_gps_file(gps_file_path, video_type, fs) ==
    IF video_type = "TRACK_ADDICT"
    THEN parse_trackaddict_gps(gps_file_path, fs)
    ELSE [exc |-> "ValueError", frame |-> None]

MaxGpsLines == 2

\* The headers of the GPS files read: the columns of a TrackAddict log,
\* the same with further columns among them, the same in another order,
\* and a log that lacks the speed column.
GpsHeaders ==
    {TrackAddictColumns,
     <<"Time", "UTC Time", "Heading", "Latitude", "Longitude", "Altitude (m)",
       "Speed (Km/h)", "Accuracy (m)">>,
     <<"Speed (Km/h)", "Altitude (m)", "Longitude", "Latitude", "UTC Time",
       "Time">>,
     <<"Time", "UTC Time", "Latitude", "Longitude", "Altitude (m)">>}

\* The number in the cell of column `name` of the data row written r-th
\* by the logger; one altitude needs more than 24 bits.
CellValue(r, name) ==
    IF name = "Altitude (m)" /\ r = 2 THEN 2^24 + 1
    ELSE 10 * r + Position(TrackAddictColumns \o <<"Heading", "Accuracy (m)">>, name)

DataLine(r, header) ==
    [comment |-> FALSE,
     cells |-> [k \in 1..Len(header) |-> CellValue(r, header[k])]]

RECURSIVE LineKinds(_)
\* The line sequences of at most n lines: 0 is a comment, r > 0 the row r.
LineKinds(n) ==
    IF n = 0 THEN {<<>>}
    ELSE LineKinds(n - 1)
         \cup {Append(ks, k) : ks \in {e \in LineKinds(n - 1) : Len(e) = n - 1},
                               k \in 0..2}

GpsFiles ==
    {[header |-> h,
      lines |-> [k \in 1..Len(ks) |->
                    IF ks[k] = 0 THEN CommentLine ELSE DataLine(ks[k], h)]] :
        h \in GpsHeaders, ks \in LineKinds(MaxGpsLines)}

ParseGpsFileCall ==
    \E video_type \in VideoType :
        LET out == parse_gps_file("gps.csv", video_type, files)
        IN /\ ret' = [op |-> "parse_gps_file", gps_file_path |-> "gps.csv",
                      video_type |-> video_type, exc |-> out.exc,
                      frame |-> out.frame, earlier |-> None]
           /\ UNCHANGED <<repoVars, lastCall, pipeVars, cfgVars, envVars, tx>>

-----------------------------------------------------------------------------
(* The text segments made of the engine's output *)

\* A str is the sequence of its characters.  string.punctuation and
\* string.whitespace ("\\x60" stands for the grave accent and "\\x0b"
\* for the vertical tab).
punctuation ==
    <<"!", "\"", "#", "$", "%", "&", "'", "(", ")", "*", "+", ",", "-", ".",
      "/", ":", ";", "<", "=", ">", "?", "@", "[", "\\", "]", "^", "_", "\\x60",
      "{", "|", "}", "~">>

whitespace == <<" ", "\t", "\n", "\r", "\\x0b", "\f">>

keep_keys == {"start", "end", "text", "no_speech_prob"}

keep_punc == "'"

\* str.replace(old, "") for an old of one character
replace(str, old) == SelectSeq(str, LAMBDA c : c # old)

remove_punc == replace(punctuation, keep_punc)

\* str.maketrans("", "", deleted): the characters that map to None
maketrans(deleted) == Range(deleted)

\* (a table of the whitespace alone)
remove_punc_table_whitespace == maketrans(whitespace)
remove_punc_table == maketrans(remove_punc \o whitespace)

RECURSIVE strip(_, _)
\* (str.strip(chars): the characters removed at both ends only)
strip(str, table) ==
    IF str = <<>> THEN <<>>
    ELSE IF str[1] \in table THEN strip(Tail(str), table)
    ELSE IF str[Len(str)] \in table
         THEN strip(SubSeq(str, 1, Len(str) - 1), table)
         ELSE str
\* str.translate(table) for a table that only deletes
translate(str, table) == SelectSeq(str, LAMBDA c : c \notin table)

\* {k: v.translate(remove_punc_table) if k == "word" else v for k, v in d.items()}
stripped_word(d) ==
    [k \in DOMAIN d |->
        IF k = "word" THEN translate(d[k], remove_punc_table) ELSE d[k]]

\* (the words set on the engine's segment itself, no key filtered out)
filtered_segment_all_keys(segment) ==
    [k \in DOMAIN segment \cup {"words"} |->
        IF k = "words"
        THEN [j \in 1..Len(segment.words) |-> stripped_word(segment.words[j])]
        ELSE segment[k]]
\* One turn of the loop over transcription["segments"].
filtered_segment(segment) ==
    [k \in (DOMAIN segment \cap keep_keys) \cup {"words"} |->
        IF k = "words"
        THEN [j \in 1..Len(segment.words) |-> stripped_word(segment.words[j])]
        ELSE segment[k]]

\* The text_segments transcribe_audio_whisper returns for the segments of
\* model.transcribe.
text_segments(segments) ==
    [i \in 1..Len(segments) |-> filtered_segment(segments[i])]

MaxWordLen == 3

Alphabet == {"a", "'", ",", "!", " ", "\t"}

RECURSIVE Strings(_)
\* The strings over Alphabet of at most n characters.
Strings(n) ==
    IF n = 0 THEN {<<>>}
    ELSE Strings(n - 1)
         \cup {Append(w, c) : w \in {e \in Strings(n - 1) : Len(e) = n - 1},
                              c \in Alphabet}

\* A segment of model.transcribe that holds the one word token `word`.
EngineSegment(word) ==
    [id |-> 0, seek |-> 0, start |-> 1, end |-> 4, text |-> word,
     tokens |-> <<7>>, temperature |-> 0, avg_logprob |-> 0,
     compression_ratio |-> 1, no_speech_prob |-> 0,
     words |-> <<[word |-> word, start |-> 2, end |-> 3, probability |-> 9]>>]

\* transcribe_audio_whisper past model.transcribe: it returns the segments
\* it makes of what the engine returned.
TranscribeWordsCall ==
    \E word \in Strings(MaxWordLen) :
        /\ ret' = [op |-> "transcribe_audio_whisper",
                   segments |-> <<EngineSegment(word)>>,
                   exc |-> "none",
                   value |-> text_segments(<<EngineSegment(word)>>),
                   earlier |-> None]
        /\ UNCHANGED <<repoVars, lastCall, pipeVars, cfgVars, envVars, tx>>

-----------------------------------------------------------------------------
(* Transcription and the run configuration *)

\* (the audio file looked for before the engine is imported)
transcribe_audio_whisper_file_first(audio_file_path, whisper_config, fs, installed) ==
    IF ~exists(audio_file_path, fs)
    THEN [exc |-> "FileNotFoundError", load_model |-> FALSE]
    ELSE IF ~installed
         THEN [exc |-> "ImportError", load_model |-> FALSE]
         ELSE [exc |-> "none", load_model |-> TRUE]
\* transcribe_audio_whisper up to whisper.load_model: the exception raised
\* before it, else that load_model is called.
transcribe_audio_whisper(audio_file_path, whisper_config, fs, installed) ==
    IF ~installed
    THEN [exc |-> "ImportError", load_model |-> FALSE]
    ELSE IF ~exists(audio_file_path, fs)
         THEN [exc |-> "FileNotFoundError", load_model |-> FALSE]
         ELSE [exc |-> "none", load_model |-> TRUE]

\* A model_config is None or a WhisperConfig, given by its model name.
transcribe_audio(audio_file_path, model_config, fs, installed) ==
    IF model_config # None
    THEN transcribe_audio_whisper(audio_file_path, model_config[1], fs, installed)
    ELSE [exc |-> "ValueError", load_model |-> FALSE]

\* The dataclass EndToEndConfig: its generated __init__ stores the fields.
EndToEndConfig(transcription_config, source_video_type, thumbnail_width) ==
    [transcription_config |-> transcription_config,
     source_video_type |-> source_video_type,
     thumbnail_width |-> thumbnail_width,
     exc |-> "none"]

NoJob == EndToEndConfig(None, "", 0)

\* The thumbnail widths a caller configures; 300 is the default.
Widths == {300, 150}

-----------------------------------------------------------------------------
(* LogTime and process_video *)

\* LogTime.__exit__ logs and has no return statement: it returns None.
\* (an __exit__ that returns True)
LogTimeExitSwallows(exc_type) == Some(TRUE)
LogTimeExit(exc_type) == None

\* A with statement swallows the exception when __exit__ returns a true value.
Swallowed(returned) == returned # None /\ returned[1] = TRUE

\* (the GPS file parsed before the thumbnails are taken)
StageOrderGpsEarly ==
    <<"extract_audio", "get_metadata", "transcribe_audio", "parse_gps_file",
      "get_thumbnail", "get_checksum_video", "get_checksum_audio", "to_dict",
      "save_data">>
\* The calls process_video makes, in program order.
StageOrder ==
    <<"extract_audio", "get_metadata", "transcribe_audio", "get_thumbnail",
      "parse_gps_file", "get_checksum_video", "get_checksum_audio", "to_dict",
      "save_data">>

\* The calls made inside a `with utils.LogTime(...)` block.
InLogTime(stage) == stage \notin {"get_checksum_video", "get_checksum_audio"}

IndexOf(stage) == CHOOSE k \in 1..Len(StageOrder) : StageOrder[k] = stage

Following(stage) ==
    IF IndexOf(stage) = Len(StageOrder) THEN "done"
    ELSE StageOrder[IndexOf(stage) + 1]

\* Where control goes after `stage` returned, given the locals it left:
\* the thumbnail loop runs once per text segment, not at all for none.
NextStage(stage, l) ==
    LET more == l.thumbnails < Len(l.text_segments)
    IN IF stage = "get_thumbnail" /\ more THEN "get_thumbnail"
       ELSE IF Following(stage) = "get_thumbnail" /\ ~more
            THEN Following("get_thumbnail")
            ELSE Following(stage)

\* Where control goes when the with block around `stage` swallows.
AfterBlock(stage, l) ==
    IF stage = "extract_audio" THEN Following("get_metadata")
    ELSE IF stage = "get_thumbnail"
         THEN Following("get_thumbnail")
         ELSE NextStage(stage, l)

\* Where control goes when `stage` raises.
AfterRaise(stage, l) ==
    IF InLogTime(stage) /\ Swallowed(LogTimeExit("Exception"))
    THEN AfterBlock(stage, l)
    ELSE "failed"

NoLocals == [text_segments |-> <<>>, thumbnails |-> 0, gps |-> 0,
             video_checksum |-> "", audio_checksum |-> "", raised |-> <<>>,
             exc |-> "none", load_model |-> FALSE]

\* The arguments process_video is called with.
Args == [video_path |-> "video.mp4", audio_path |-> "audio.mp3",
         gps_path |-> "gps.csv"]

ProcessVideoStart ==
    /\ pc = "idle"
    /\ runs < MaxRuns
    /\ runs' = runs + 1
    /\ pc' = StageOrder[1]
    /\ trace' = <<>>
    /\ locals' = NoLocals
    /\ dbAtStart' = db
    /\ \E transcription_config \in {None, Some("tiny.en")},
          source_video_type \in VideoType, thumbnail_width \in Widths :
          LET config == EndToEndConfig(transcription_config, source_video_type,
                                       thumbnail_width)
          IN /\ config.exc = "none"
             /\ job_config' = config
    /\ UNCHANGED <<repoVars, lastCall, cfgVars, envVars, callVars, tx>>

\* The segments the engine returns for a body: each with its start time
\* and its number of words, none with a thumbnail.
TextSegments(segs) ==
    [i \in 1..Len(segs) |->
        [start |-> 5 * (i - 1), words |-> segs[i], thumbnail |-> None]]

\* (the default width in place of the configured one)
thumbnail_f_default_width(time) == get_thumbnail(Args.video_path, 300, time)
\* thumbnail_f = functools.partial(vp.get_thumbnail, video_path, width)
thumbnail_f(time) ==
    get_thumbnail(Args.video_path, job_config.thumbnail_width, time)

\* The exception a stage cannot but raise in the present environment
\* ("none" when it can return).
StageError(stage) ==
    CASE stage = "extract_audio" ->
            extract_audio(Args.video_path, Args.audio_path, FALSE, files, "ok").exc
      [] stage = "get_metadata" -> get_metadata(Args.video_path, files, "ok")
      [] stage = "transcribe_audio" ->
            transcribe_audio(Args.audio_path, job_config.transcription_config,
                             files, whisper).exc
      [] stage = "parse_gps_file" ->
            parse_gps_file(Args.gps_path, job_config.source_video_type, files).exc
      [] stage = "get_checksum_video" -> get_checksum(Args.video_path, files).exc
      [] stage = "get_checksum_audio" -> get_checksum(Args.audio_path, files).exc
      [] OTHER -> "none"

\* The file system a stage that returns leaves.
StageFiles(stage) ==
    IF stage = "extract_audio"
    THEN extract_audio(Args.video_path, Args.audio_path, FALSE, files, "ok").files
    ELSE files

\* whisper.load_model is reached by this call.
LoadsModel(stage) ==
    /\ stage = "transcribe_audio"
    /\ transcribe_audio(Args.audio_path, job_config.transcription_config,
                        files, whisper).load_model

\* What a stage that returns leaves in the locals.
StageResults(stage, l) ==
    IF stage = "transcribe_audio"
    THEN {[l EXCEPT !.text_segments = TextSegments(b.segs)] : b \in Bodies}
    ELSE IF stage = "get_thumbnail"
    THEN {[l EXCEPT !.thumbnails = @ + 1,
                    !.text_segments[l.thumbnails + 1].thumbnail =
                        Some(thumbnail_f(l.text_segments[l.thumbnails + 1].start))]}
    ELSE IF stage = "parse_gps_file"
    THEN {[l EXCEPT !.gps = b.ngps] : b \in Bodies}
    ELSE IF stage = "get_checksum_video"
    THEN {[l EXCEPT !.video_checksum = c] : c \in Checksums \ {""}}
    ELSE IF stage = "get_checksum_audio"
    THEN {[l EXCEPT !.audio_checksum = c] : c \in Checksums \ {""}}
    ELSE {l}

\* One call of a stage other than save_data: it returns or it raises.
RunStage ==
    /\ pc \in Range(StageOrder) \ {"save_data"}
    /\ trace' = Append(trace, pc)
    /\ \/ /\ StageError(pc) = "none"
          /\ \E l \in StageResults(pc, locals) :
                /\ locals' = [l EXCEPT !.load_model = @ \/ LoadsModel(pc)]
                /\ pc' = NextStage(pc, l)
          /\ files' = StageFiles(pc)
       \/ /\ locals' = [locals EXCEPT
                            !.raised = Append(@, pc),
                            !.exc = IF StageError(pc) = "none" THEN "Error"
                                    ELSE StageError(pc),
                            !.load_model = @ \/ LoadsModel(pc)]
          /\ pc' = AfterRaise(pc, locals')
          /\ files' = files
    /\ UNCHANGED <<runs, dbAtStart, job_config, whisper, repoVars, lastCall,
                   cfgVars, callVars, tx>>

\* The call of repository.save_data with the assembled payload.
RunSaveData ==
    /\ pc = "save_data"
    /\ trace' = Append(trace, pc)
    /\ \E fault \in FaultPoints :
          SaveData([vcs |-> locals.video_checksum, acs |-> locals.audio_checksum,
                    segs |-> [i \in 1..Len(locals.text_segments) |->
                                locals.text_segments[i].words],
                    ngps |-> locals.gps], fault)
    /\ IF calls'[Len(calls')] = "none"
       THEN /\ pc' = NextStage(pc, locals)
            /\ locals' = locals
       ELSE /\ locals' = [locals EXCEPT !.raised = Append(@, pc),
                                        !.exc = calls'[Len(calls')]]
            /\ pc' = AfterRaise(pc, locals')
    /\ UNCHANGED <<runs, dbAtStart, job_config, envVars>>

\* process_video returned or raised to its caller: its frame is gone.
ProcessVideoReturn ==
    /\ pc \in {"done", "failed"}
    /\ pc' = "idle"
    /\ trace' = <<>>
    /\ locals' = NoLocals
    /\ dbAtStart' = {}
    /\ job_config' = NoJob
    /\ UNCHANGED <<runs, repoVars, lastCall, cfgVars, envVars, callVars, tx>>

-----------------------------------------------------------------------------
(* Specifications *)

NoCall == [op |-> "none", id |-> None, checksum |-> None, result |-> Raised("none")]

\* No concurrent run: nothing ingested before, no worker.
NoTx == [db0 |-> {}, run |-> <<>>]

\* A new Repository on an empty database, no run in progress, no call made.
InitProgram ==
    /\ db = {}
    /\ pending = {}
    /\ nextId = [video |-> 1, audio |-> 1]
    /\ calls = <<>>
    /\ lastCall = NoCall
    /\ pc = "idle"
    /\ trace = <<>>
    /\ locals = NoLocals
    /\ runs = 0
    /\ dbAtStart = {}
    /\ job_config = NoJob
    /\ dirs = {"."}
    /\ cfg = NoConfig
    /\ ret = NoRet
    /\ tx = NoTx

\* The files of an ingestion that was not run yet: the video and its GPS
\* log (two rows after a comment) are there, the audio file is not.
DefaultFiles ==
    [p \in Paths |->
        IF p = "video.mp4" THEN Some(<<1, 0>>)
        ELSE IF p = "gps.csv"
             THEN Some([header |-> TrackAddictColumns,
                        lines |-> <<CommentLine, DataLine(1, TrackAddictColumns),
                                    DataLine(2, TrackAddictColumns)>>])
             ELSE None]

Init ==
    /\ InitProgram
    /\ cascade_backrefs \in BOOLEAN
    /\ files = DefaultFiles
    /\ whisper = TRUE

SaveDataUpTo(n) ==
    /\ Len(calls) < n
    /\ \E payload \in Payloads, fault \in FaultPoints : SaveData(payload, fault)
    /\ UNCHANGED <<pipeVars, envVars>>

\* A single writer calling save_data, any call of which may raise.
SaveDataCall == SaveDataUpTo(MaxCalls)

Next == SaveDataCall

Spec == Init /\ [][Next]_vars

\* A writer and a reader sharing the Repository instance.
LookupSaveData == SaveDataUpTo(MaxLookupCalls)

NextLookup ==
    \/ LookupSaveData
    \/ GetVideoCall
    \/ GetAudioCall
    \/ QueryVideoPathByIdCall

SpecLookup == Init /\ [][NextLookup]_vars

\* Ingestion runs, one after the other, on one Repository instance.
NextPipeline ==
    \/ ProcessVideoStart
    \/ RunStage
    \/ RunSaveData
    \/ ProcessVideoReturn

SpecPipeline == Init /\ [][NextPipeline]_vars

\* Construction of transcription configurations.
NextConfig == WhisperConfigInit

SpecConfig == Init /\ [][NextConfig]_vars

\* Calls of the media functions on any file system of two media files.
InitMedia ==
    /\ InitProgram
    /\ cascade_backrefs = FALSE
    /\ whisper = TRUE
    /\ \E contents \in [MediaPaths -> {None} \cup {Some(d) : d \in FileBytes}] :
          files = [p \in Paths |-> IF p \in MediaPaths THEN contents[p] ELSE None]

NextMedia ==
    \/ ExtractAudioCall
    \/ GetChecksumCall

SpecMedia == InitMedia /\ [][NextMedia]_vars

\* Calls of the GPS parser on any GPS file, or none.
InitGps ==
    /\ InitProgram
    /\ cascade_backrefs = FALSE
    /\ whisper = TRUE
    /\ \E content \in {None} \cup {Some(f) : f \in GpsFiles} :
          files = [p \in Paths |-> IF p = "gps.csv" THEN content ELSE None]

NextGps == ParseGpsFileCall

SpecGps == InitGps /\ [][NextGps]_vars

\* Transcriptions of audio in which the engine hears any one word token.
NextWords == TranscribeWordsCall

InitWords ==
    /\ InitProgram
    /\ cascade_backrefs = FALSE
    /\ whisper = TRUE
    /\ files = DefaultFiles

SpecWords == InitWords /\ [][NextWords]_vars

-----------------------------------------------------------------------------
(* Two concurrent ingestions, each on a Repository of its own *)

Workers == {1, 2}

\* What the session of worker w reads: the committed rows and the rows
\* its own transaction inserted.
VisibleTo(w) == db \cup tx.run[w].flushed

\* The rows of the session of worker w that are of `kind` and not inserted.
Unflushed(w, kind) ==
    {o \in tx.run[w].session : o.kind = kind /\ Key(o) \notin {Key(f) : f \in tx.run[w].flushed}}

\* video := self.get_video(checksum=video_kwargs["checksum"])
TxGetVideo(w) ==
    LET v == get_video(None, Some(tx.run[w].payload.vcs), VisibleTo(w))
    IN /\ tx.run[w].pc = "get_video"
       /\ v.exc = "none"
       /\ tx' = [tx EXCEPT !.run[w].pc = "get_audio", !.run[w].video = v.row]
       /\ UNCHANGED <<db, nextId>>

\* audio := self.get_audio(...), the constructions and the session.add loop
TxGetAudio(w) ==
    LET a == get_audio(None, Some(tx.run[w].payload.acs), VisibleTo(w))
        plan == Constructions(w, tx.run[w].payload, tx.run[w].video, a.row)
    IN /\ tx.run[w].pc = "get_audio"
       /\ a.exc = "none"
       /\ tx' = [tx EXCEPT !.run[w].pc = "insert_video",
                           !.run[w].audio = a.row,
                           !.run[w].session = {[o EXCEPT !.id = 0] : o \in Range(plan)}]
       /\ UNCHANGED <<db, nextId>>

\* session.commit(), the flush: INSERT of the new video row, if any; the
\* database gives it the next identity value.
TxInsertVideo(w) ==
    LET new == {[o EXCEPT !.id = nextId.video] : o \in Unflushed(w, "video")}
    IN /\ tx.run[w].pc = "insert_video"
       /\ tx' = [tx EXCEPT !.run[w].pc = "insert_audio",
                           !.run[w].flushed = @ \cup new]
       /\ nextId' = [nextId EXCEPT !.video = IF new = {} THEN @ ELSE @ + 1]
       /\ db' = db

\* session.commit(), the flush: INSERT of the new audio row, if any.
TxInsertAudio(w) ==
    LET new == {[o EXCEPT !.id = nextId.audio] : o \in Unflushed(w, "audio")}
    IN /\ tx.run[w].pc = "insert_audio"
       /\ tx' = [tx EXCEPT !.run[w].pc = "commit",
                           !.run[w].flushed = @ \cup new]
       /\ nextId' = [nextId EXCEPT !.audio = IF new = {} THEN @ ELSE @ + 1]
       /\ db' = db

\* session.commit(): the other INSERTs and the COMMIT.
TxCommit(w) ==
    LET rest == UNION {Unflushed(w, kind) :
                          kind \in {"transcription", "text_segment",
                                    "word_segment", "gps"}}
    IN /\ tx.run[w].pc = "commit"
       /\ db' = db \cup tx.run[w].flushed \cup rest
       /\ tx' = [tx EXCEPT !.run[w].pc = "done", !.run[w].session = {},
                           !.run[w].flushed = {}]
       /\ nextId' = nextId

SaveDataStep ==
    \E w \in Workers :
        /\ \/ TxGetVideo(w)
           \/ TxGetAudio(w)
           \/ TxInsertVideo(w)
           \/ TxInsertAudio(w)
           \/ TxCommit(w)
        /\ UNCHANGED <<pending, calls, cascade_backrefs, lastCall, pipeVars,
                       cfgVars, envVars, callVars>>

\* The rows of an ingestion of the file with checksum c1, made before.
IngestedBefore ==
    {[o EXCEPT !.id = IF o.kind \in {"video", "audio"} THEN 1 ELSE 0] :
        o \in Range(Constructions(3, [vcs |-> "c1", acs |-> "c1",
                                      segs |-> <<2, 0>>, ngps |-> 2],
                                  None, None))}

\* Two save_data calls about to start, for two files that differ in their
\* video checksum and in their audio checksum, on a database that is empty
\* or holds an earlier ingestion.
InitConcurrent ==
    /\ pending = {}
    /\ calls = <<>>
    /\ lastCall = NoCall
    /\ cascade_backrefs = FALSE
    /\ pc = "idle"
    /\ trace = <<>>
    /\ locals = NoLocals
    /\ runs = 0
    /\ dbAtStart = {}
    /\ job_config = NoJob
    /\ dirs = {"."}
    /\ cfg = NoConfig
    /\ ret = NoRet
    /\ files = DefaultFiles
    /\ whisper = TRUE
    /\ \E before \in BOOLEAN :
          /\ nextId = IF before THEN [video |-> 2, audio |-> 2]
                      ELSE [video |-> 1, audio |-> 1]
          /\ db = IF before THEN IngestedBefore ELSE {}
    /\ \E v \in {"c1", "c2"}, a \in {"c1", "c2"}, b1 \in Bodies, b2 \in Bodies :
          LET other(c) == IF c = "c1" THEN "c2" ELSE "c1"
              worker(vcs, acs, b) ==
                  [pc |-> "get_video",
                   payload |-> [vcs |-> vcs, acs |-> acs, segs |-> b.segs,
                                ngps |-> b.ngps],
                   video |-> None, audio |-> None, session |-> {},
                   flushed |-> {}]
          IN tx = [db0 |-> db,
                   run |-> <<worker(v, a, b1), worker(other(v), other(a), b2)>>]

NextConcurrent == SaveDataStep

SpecConcurrent == InitConcurrent /\ [][NextConcurrent]_vars

\* Something outside the program removes the audio file.
RemoveAudio ==
    /\ exists(Args.audio_path, files)
    /\ files' = [files EXCEPT ![Args.audio_path] = None]
    /\ UNCHANGED <<repoVars, lastCall, pipeVars, cfgVars, whisper, callVars, tx>>

\* Ingestion runs on any installation and any set of input files: whisper
\* is installed or not, each of the three files is there or not.
InitIngest ==
    /\ InitProgram
    /\ cascade_backrefs \in BOOLEAN
    /\ whisper \in BOOLEAN
    /\ \E present \in SUBSET Paths :
          files = [p \in Paths |->
                     IF p \notin present THEN None
                     ELSE IF p = Args.audio_path THEN Some(<<0>>)
                     ELSE DefaultFiles[p]]

NextIngest ==
    \/ ProcessVideoStart
    \/ RunStage
    \/ RunSaveData
    \/ ProcessVideoReturn
    \/ RemoveAudio

SpecIngest == InitIngest /\ [][NextIngest]_vars

-----------------------------------------------------------------------------
(* Statements run outside the session: execute_update, drop_and_create *)

\* The state of the database a statement works on: the rows of the tables
\* and the next identity values.
Database(rows, ids) == [rows |-> rows, nextId |-> ids]

\* The rows that hold a foreign key to a row of the table `kind`.
Referring(rows, kind) ==
    {o \in rows : o.parent # NoParent /\ o.parent[1] = kind}

Tables ==
    {"video", "audio", "transcription", "text_segment", "word_segment", "gps"}

\* The schema-reset script with its confirmation filled in.
DDLScript(danger) == [sql |-> "DDL", table |-> "", danger |-> danger]

\* The schema-reset script run by the database: it tests the confirmation
\* again, then drops every table and creates it anew, empty.
DDL(danger, d) ==
    IF danger
    THEN [exc |-> "none", rows |-> {}, nextId |-> [video |-> 1, audio |-> 1]]
    ELSE [exc |-> "none", rows |-> d.rows, nextId |-> d.nextId]

\* The statements handed to execute_update: the reset script, a DELETE of
\* every row of a table, and text that is no SQL.
Statements ==
    {DDLScript(danger) : danger \in BOOLEAN}
    \cup {[sql |-> "DELETE", table |-> t, danger |-> FALSE] : t \in Tables}
    \cup {[sql |-> "bad", table |-> "", danger |-> FALSE]}

\* conn.execute(statement): what the statement does inside the open
\* transaction, or the exception the database answers with.
Execute(statement, d) ==
    CASE statement.sql = "DDL" -> DDL(statement.danger, d)
      [] statement.sql = "DELETE" ->
            IF Referring(d.rows, statement.table) # {}
            THEN [exc |-> "IntegrityError", rows |-> d.rows, nextId |-> d.nextId]
            ELSE [exc |-> "none",
                  rows |-> d.rows \ RowsOf(d.rows, statement.table),
                  nextId |-> d.nextId]
      [] OTHER ->
            [exc |-> "ProgrammingError", rows |-> d.rows, nextId |-> d.nextId]

\* Where the connection can fail during a call: nowhere, while the
\* statement is sent, or at the commit.
ConnectionFaults == {"none", "execute", "commit"}

\* (a connection in autocommit: the statement is final once it has run)
execute_update_autocommit(statement, fault, d) ==
    LET out == Execute(statement, d)
    IN IF fault = "execute"
       THEN [exc |-> "OperationalError", rows |-> d.rows, nextId |-> d.nextId,
             log |-> <<"begin", "execute", "rollback">>, executed |-> <<>>]
       ELSE IF out.exc # "none"
       THEN [exc |-> out.exc, rows |-> d.rows, nextId |-> d.nextId,
             log |-> <<"begin", "execute", "rollback">>,
             executed |-> <<statement>>]
       ELSE IF fault = "commit"
       THEN [exc |-> "OperationalError", rows |-> out.rows,
             nextId |-> out.nextId,
             log |-> <<"begin", "execute", "commit", "rollback">>,
             executed |-> <<statement>>]
       ELSE [exc |-> "none", rows |-> out.rows, nextId |-> out.nextId,
             log |-> <<"begin", "execute", "commit">>,
             executed |-> <<statement>>]
\* execute_update: the exception that leaves the call, the database it
\* leaves, the calls made on the connection and the statements that
\* reached the database.
execute_update(statement, fault, d) ==
    LET out == Execute(statement, d)
    IN IF fault = "execute"
       THEN [exc |-> "OperationalError", rows |-> d.rows, nextId |-> d.nextId,
             log |-> <<"begin", "execute", "rollback">>, executed |-> <<>>]
       ELSE IF out.exc # "none"
       THEN [exc |-> out.exc, rows |-> d.rows, nextId |-> d.nextId,
             log |-> <<"begin", "execute", "rollback">>,
             executed |-> <<statement>>]
       ELSE IF fault = "commit"
       THEN [exc |-> "OperationalError", rows |-> d.rows, nextId |-> d.nextId,
             log |-> <<"begin", "execute", "commit", "rollback">>,
             executed |-> <<statement>>]
       ELSE [exc |-> "none", rows |-> out.rows, nextId |-> out.nextId,
             log |-> <<"begin", "execute", "commit">>,
             executed |-> <<statement>>]

\* A call that touches no connection.
NoStatement(exc, d) ==
    [exc |-> exc, rows |-> d.rows, nextId |-> d.nextId, log |-> <<>>,
     executed |-> <<>>]

\* (the script run whatever the flag)
drop_and_create_unguarded(I_AM_SURE_I_WANT_TO_DO_THIS, fault, d) ==
    execute_update(DDLScript(TRUE), fault, d)
drop_and_create(I_AM_SURE_I_WANT_TO_DO_THIS, fault, d) ==
    IF I_AM_SURE_I_WANT_TO_DO_THIS
    THEN execute_update(DDLScript(I_AM_SURE_I_WANT_TO_DO_THIS), fault, d)
    ELSE NoStatement("none", d)

\* Python truthiness of an Optional[bool].
TruthyBool(x) == x # None /\ x[1]

\* Repository.__init__ up to the reflection of the schema.
Repository(db_auth_path, db_auth, DROP_AND_CREATE_DANGER, fault, d) ==
    IF \/ db_auth_path = None /\ db_auth = None
       \/ db_auth_path # None /\ db_auth # None
    THEN NoStatement("ValueError", d)
    ELSE IF TruthyBool(DROP_AND_CREATE_DANGER)
         THEN drop_and_create(TRUE, fault, d)
         ELSE NoStatement("none", d)

OptBooleans == {None, Some(FALSE), Some(TRUE)}

OptAuths == {None, Some("auth")}

ExecuteUpdateCall ==
    \E statement \in Statements, fault \in ConnectionFaults :
        LET out == execute_update(statement, fault, Database(db, nextId))
        IN /\ db' = out.rows
           /\ nextId' = out.nextId
           /\ ret' = [op |-> "execute_update", statement |-> statement,
                      fault |-> fault, exc |-> out.exc, log |-> out.log,
                      executed |-> out.executed, earlier |-> None]
           /\ UNCHANGED <<pending, calls, cascade_backrefs, lastCall, pipeVars,
                          cfgVars, envVars, tx>>

DropAndCreateCall ==
    \E flag \in BOOLEAN, fault \in ConnectionFaults :
        LET out == drop_and_create(flag, fault, Database(db, nextId))
        IN /\ db' = out.rows
           /\ nextId' = out.nextId
           /\ ret' = [op |-> "drop_and_create", flag |-> flag,
                      fault |-> fault, exc |-> out.exc, log |-> out.log,
                      executed |-> out.executed, earlier |-> None]
           /\ UNCHANGED <<pending, calls, cascade_backrefs, lastCall, pipeVars,
                          cfgVars, envVars, tx>>

RepositoryCall ==
    \E db_auth_path \in OptAuths, db_auth \in OptAuths,
       danger \in OptBooleans, fault \in ConnectionFaults :
        LET out == Repository(db_auth_path, db_auth, danger, fault,
                              Database(db, nextId))
        IN /\ db' = out.rows
           /\ nextId' = out.nextId
           /\ ret' = [op |-> "Repository", db_auth_path |-> db_auth_path,
                      db_auth |-> db_auth, danger |-> danger,
                      fault |-> fault, exc |-> out.exc, log |-> out.log,
                      executed |-> out.executed, earlier |-> None]
           /\ UNCHANGED <<pending, calls, cascade_backrefs, lastCall, pipeVars,
                          cfgVars, envVars, tx>>

\* Administration of a database that holds an ingestion.
InitAdmin ==
    /\ pending = {}
    /\ calls = <<>>
    /\ lastCall = NoCall
    /\ cascade_backrefs = FALSE
    /\ pc = "idle"
    /\ trace = <<>>
    /\ locals = NoLocals
    /\ runs = 0
    /\ dbAtStart = {}
    /\ job_config = NoJob
    /\ dirs = {"."}
    /\ cfg = NoConfig
    /\ ret = NoRet
    /\ tx = NoTx
    /\ files = DefaultFiles
    /\ whisper = TRUE
    /\ nextId = [video |-> 2, audio |-> 2]
    /\ db = IngestedBefore

NextAdmin ==
    \/ ExecuteUpdateCall
    \/ DropAndCreateCall
    \/ RepositoryCall

SpecAdmin == InitAdmin /\ [][NextAdmin]_vars

-----------------------------------------------------------------------------
(* save_clip *)

\* Times are counted in half seconds.
OneSecond == 2

ClipStarts == {-2, 0, 1, 3}

ClipEnds == {0, 1, 2, 4}

\* The part of a stream between two times, a byte being half a second.
Clip(data, start, end) ==
    LET from == IF start < 0 THEN 1 ELSE start + 1
        to == IF end > Len(data) THEN Len(data) ELSE end
    IN IF from > to THEN <<>> ELSE SubSeq(data, from, to)

\* ffmpeg.input(video_path, ss=start, to=end).output(output_path)
\*     .run(overwrite_output=True, quiet=True)
\* The tool fails without writing when it cannot open its input, when the
\* output is the input and when `to` is not after `ss`; else it writes the
\* clip over whatever is at output_path, unless it fails.
ffmpeg_clip(video_path, start, end, output_path, fs, tool) ==
    IF \/ ~exists(video_path, fs)
       \/ output_path = video_path
       \/ end <= start
       \/ tool # "ok"
    THEN [exc |-> "ffmpeg.Error", written |-> FALSE, files |-> fs]
    ELSE [exc |-> "none", written |-> TRUE,
          files |-> [fs EXCEPT ![output_path] =
                        Some(Clip(fs[video_path][1], start, end))]]

\* save_clip: each of its four tests builds an exception and drops it (no
\* raise statement), then the tool is run.
save_clip(video_path, start, end, output_path, fs, tool) ==
    ffmpeg_clip(video_path, start, end, output_path, fs, tool)

SaveClipCall ==
    \E video_path \in MediaPaths, output_path \in MediaPaths,
       start \in ClipStarts, end \in ClipEnds, tool \in ToolOutcomes :
        LET out == save_clip(video_path, start, end, output_path, files, tool)
        IN /\ files' = out.files
           /\ ret' = [op |-> "save_clip", video_path |-> video_path,
                      start |-> start, end |-> end,
                      output_path |-> output_path, exc |-> out.exc,
                      written |-> out.written, earlier |-> None]
           /\ UNCHANGED <<repoVars, lastCall, pipeVars, cfgVars, whisper, tx>>

\* Clips cut from any file system of two media files.
NextClip == SaveClipCall

SpecClip == InitMedia /\ [][NextClip]_vars

-----------------------------------------------------------------------------
(* The segments of a transcript, from the engine to the rows *)

MaxSegments == 2

\* The times the engine gives a segment and a word: a start and an end,
\* which the engine is not known to keep in order.
SegmentTimes == {<<0, 2>>, <<5, 7>>, <<5, 2>>}

WordTimes == {<<0, 1>>, <<1, 0>>}

\* A word of model.transcribe(..., word_timestamps=True).
WhisperWord(times) ==
    [word |-> <<" ", "a">>, start |-> times[1], end |-> times[2],
     probability |-> 9]

\* The keys the engine sets on every segment, and those it may omit.
WhisperSegment(times, words, scored) ==
    LET core == [id |-> 0, seek |-> 0, start |-> times[1], end |-> times[2],
                 text |-> <<" ", "a">>, tokens |-> <<7>>, temperature |-> 0,
                 words |-> words]
        scores == [avg_logprob |-> 0, compression_ratio |-> 1,
                   no_speech_prob |-> 0]
    IN IF scored
       THEN [k \in DOMAIN core \cup DOMAIN scores |->
                IF k \in DOMAIN core THEN core[k] ELSE scores[k]]
       ELSE core

WhisperSegments ==
    {WhisperSegment(times, words, scored) :
        times \in SegmentTimes,
        words \in {<<>>} \cup {<<WhisperWord(w)>> : w \in WordTimes},
        scored \in BOOLEAN}

RECURSIVE SegmentLists(_)
\* The lists of at most n engine segments.
SegmentLists(n) ==
    IF n = 0 THEN {<<>>}
    ELSE SegmentLists(n - 1)
         \cup {Append(l, seg) : l \in {e \in SegmentLists(n - 1) : Len(e) = n - 1},
                                seg \in WhisperSegments}

\* transcribe_audio_whisper past model.transcribe, for any segments: the
\* one transcription of a run.
TranscribeSegmentsCall ==
    \E segments \in SegmentLists(MaxSegments) :
        /\ ret.op = "none"
        /\ ret' = [op |-> "transcribe_audio_whisper", segments |-> segments,
                   exc |-> "none", value |-> text_segments(segments),
                   earlier |-> None]
        /\ UNCHANGED <<repoVars, lastCall, pipeVars, cfgVars, envVars, tx>>

\* for segment in text_segments: segment["thumbnail"] = thumbnail_f(...)
with_thumbnails(segments, width) ==
    [i \in 1..Len(segments) |->
        [k \in DOMAIN segments[i] \cup {"thumbnail"} |->
            IF k = "thumbnail"
            THEN get_thumbnail(Args.video_path, width, segments[i].start)
            ELSE segments[i][k]]]

\* The keys save_data reads of a segment dict.
SegmentKeys == {"text", "start", "end", "no_speech_prob", "thumbnail", "words"}

\* self.TextSegment(transcription=transcription, segment=ts["text"], ...)
TextSegmentRow(ts, i) ==
    [kind |-> "text_segment", i |-> i, j |-> 0, segment |-> ts.text,
     start_time |-> ts.start, end_time |-> ts.end,
     no_speech_prob |-> ts.no_speech_prob, thumbnail |-> ts.thumbnail]

\* self.WordSegment(text_segment=text_segment, word=word["word"], ...)
WordSegmentRow(word, i, j) ==
    [kind |-> "word_segment", i |-> i, j |-> j, word |-> word.word,
     start_time |-> word.start, end_time |-> word.end,
     probability |-> word.probability]

RECURSIVE WordSegmentRows(_, _)
WordSegmentRows(text_segments_dicts, i) ==
    IF i > Len(text_segments_dicts) THEN <<>>
    ELSE [j \in 1..Len(text_segments_dicts[i].words) |->
             WordSegmentRow(text_segments_dicts[i].words[j], i, j)]
         \o WordSegmentRows(text_segments_dicts, i + 1)

\* The TextSegment and WordSegment rows save_data persists for a payload,
\* in the order it adds them to the session; KeyError when a segment dict
\* lacks a key the loop reads.
segment_rows(text_segments_dicts) ==
    IF \E i \in 1..Len(text_segments_dicts) :
          ~(SegmentKeys \subseteq DOMAIN text_segments_dicts[i])
    THEN [exc |-> "KeyError", persisted |-> <<>>]
    ELSE [exc |-> "none",
          persisted |->
             [i \in 1..Len(text_segments_dicts) |->
                 TextSegmentRow(text_segments_dicts[i], i)]
             \o WordSegmentRows(text_segments_dicts, 1)]

\* The transcript just returned is given its thumbnails and saved.
SaveSegmentsCall ==
    /\ ret.op = "transcribe_audio_whisper"
    /\ LET payload == with_thumbnails(ret.value, 300)
           out == segment_rows(payload)
       IN ret' = [op |-> "save_data", payload |-> payload, exc |-> out.exc,
                  persisted |-> out.persisted, earlier |-> None]
    /\ UNCHANGED <<repoVars, lastCall, pipeVars, cfgVars, envVars, tx>>

NextSegments ==
    \/ TranscribeSegmentsCall
    \/ SaveSegmentsCall

SpecSegments == InitWords /\ [][NextSegments]_vars

-----------------------------------------------------------------------------
(* What LogTime logs *)

MaxBlocks == 3

\* The task strings of the blocks and the exceptions their bodies raise.
TaskStrings == {"Transcribing audio", "Parsing gps file"}

BodyOutcomes == {None, Some("ValueError"), Some("FileNotFoundError")}

\* LogTime.__enter__: self.logger.info(f"Starting {self.task_str}")
LogTimeEnterLog(task_str) ==
    <<[level |-> "INFO", msg |-> "Starting", about |-> task_str]>>

\* (the completion logged on every exit, as a finally clause would)
LogTimeExitLogAlways(exc_type) ==
    <<[level |-> "INFO", msg |-> "Completed", about |-> ""]>>
\* LogTime.__exit__: the record it logs for the exc_type it is handed.
LogTimeExitLog(exc_type) ==
    IF exc_type = None
    THEN <<[level |-> "INFO", msg |-> "Completed", about |-> ""]>>
    ELSE <<[level |-> "FATAL", msg |-> "Exception", about |-> exc_type[1]]>>

\* `with LogTime(logger, task_str): body`: the records logged and the
\* exception that leaves the statement (None when none does).
with_LogTime(task_str, body) ==
    [log |-> LogTimeEnterLog(task_str) \o LogTimeExitLog(body),
     exc |-> IF body # None /\ ~Swallowed(LogTimeExit(body[1]))
             THEN body ELSE None]

\* The records of the logger so far.
LoggedSoFar == IF ret.op = "LogTime" THEN ret.log ELSE <<>>

BlocksSoFar == IF ret.op = "LogTime" THEN ret.blocks ELSE 0

\* A caller runs one more block under LogTime, on the same logger.
LogTimeBlock ==
    \E task_str \in TaskStrings, body \in BodyOutcomes :
        LET out == with_LogTime(task_str, body)
        IN /\ BlocksSoFar < MaxBlocks
           /\ ret' = [op |-> "LogTime", task_str |-> task_str, body |-> body,
                      exc |-> out.exc, log |-> LoggedSoFar \o out.log,
                      blocks |-> BlocksSoFar + 1, earlier |-> None]
           /\ UNCHANGED <<repoVars, lastCall, pipeVars, cfgVars, envVars, tx>>

NextLogTime == LogTimeBlock

SpecLogTime == InitWords /\ [][NextLogTime]_vars

-----------------------------------------------------------------------------
(* Claims about save_data *)

Committed(kind) == RowsOf(db, kind)

OkCalls == {r \in 1..Len(calls) : calls[r] = "none"}

\* C1: after any sequence of save_data calls by a single writer, no two
\* Video rows share a checksum and no two Audio rows share a checksum.
C1_UniqueChecksums ==
    \A o1, o2 \in Committed("video") \cup Committed("audio") :
        (o1.kind = o2.kind /\ o1.checksum = o2.checksum) => o1 = o2

\* Two commits went through and left one Video row and one Audio row,
\* which both transcriptions hang under.
C1_Witness ==
    /\ Cardinality(OkCalls) >= 2
    /\ Cardinality(Committed("video")) = 1
    /\ Cardinality(Committed("audio")) = 1
    /\ \A t \in Committed("transcription") :
          \E a \in Committed("audio") : t.parent = Key(a)

\* C2: after k successful save_data calls there are exactly k
\* Transcription rows, one created by each successful call.
C2_OneTranscriptionPerCommit ==
    /\ Cardinality(Committed("transcription")) = Cardinality(OkCalls)
    /\ \A t \in Committed("transcription") : t.run \in OkCalls

\* C3: when a row constructor raises inside save_data, no row of that
\* call is ever visible in the database afterwards.
C3_FailedConstructionInvisible ==
    \A r \in 1..Len(calls) :
        calls[r] = "ConstructionError" => \A o \in db : o.run # r

\* C4: a save_data call is independently transactional: whatever a commit
\* adds to the database was built by the very call that commits.
C4_CommitPersistsOwnRowsOnly ==
    [][\A o \in db' \ db : o.run = Len(calls')]_vars

-----------------------------------------------------------------------------
(* Claims about the read operations *)

IsGet == lastCall.op \in {"get_video", "get_audio"}

GetKind == IF lastCall.op = "get_audio" THEN "audio" ELSE "video"

BothGiven == lastCall.id # None /\ lastCall.checksum # None
NeitherGiven == lastCall.id = None /\ lastCall.checksum = None

\* C7: get_video and get_audio raise ValueError when both an id and a
\* checksum are supplied and when neither is, and issue no query then.
C7_AmbiguousSelectorsRejected ==
    (IsGet /\ (BothGiven \/ NeitherGiven)) =>
        (lastCall.result.exc = "ValueError" /\ ~lastCall.result.queried)

\* get_audio was called without any selector on a database that holds an
\* Audio row, and raised.
C7_Witness ==
    /\ lastCall.op = "get_audio"
    /\ NeitherGiven
    /\ Committed("audio") # {}
    /\ lastCall.result.exc = "ValueError"

\* The rows of the table that match the one selector supplied.
Matching ==
    IF lastCall.id # None
    THEN {o \in RowsOf(VisibleRows, GetKind) : o.id = lastCall.id[1]}
    ELSE {o \in RowsOf(VisibleRows, GetKind) : o.checksum = lastCall.checksum[1]}

\* C8: with exactly one selector supplied (an id of 0 and an empty
\* checksum included) the result is the matching row, or None when there
\* is none, and nothing is raised.
C8_OneSelectorFindsRowOrNone ==
    (IsGet /\ ~BothGiven /\ ~NeitherGiven) =>
        /\ lastCall.result.exc = "none"
        /\ lastCall.result.row =
              (IF Matching = {} THEN None ELSE Some(CHOOSE o \in Matching : TRUE))

\* C9: query_video_path_by_id returns the filename of the Video row with
\* that id, the empty string when there is none, and never raises.
C9_PathByIdNeverRaises ==
    lastCall.op = "query_video_path_by_id" =>
        /\ lastCall.result.exc = "none"
        /\ LET found == {o \in RowsOf(VisibleRows, "video") : o.id = lastCall.id[1]}
           IN lastCall.result.value =
                 (IF found = {} THEN "" ELSE (CHOOSE o \in found : TRUE).filename)

-----------------------------------------------------------------------------
(* Claims about process_video *)

Count(seq, x) == Cardinality({k \in 1..Len(seq) : seq[k] = x})

\* C5: a process_video run either makes every call and calls save_data
\* exactly once, or a stage raises: then the exception reaches the caller,
\* no later stage runs, nothing is retried and, unless it was save_data
\* that raised, save_data is never called and no row is committed.
C5_RunCommitsOnceOrNothing ==
    /\ Count(trace, "save_data") <= 1
    /\ pc = "done" => (Count(trace, "save_data") = 1 /\ locals.raised = <<>>)
    /\ locals.raised # <<>> =>
          /\ pc = "failed"
          /\ Len(locals.raised) = 1
          /\ trace[Len(trace)] = locals.raised[1]
          /\ locals.raised[1] # "save_data" =>
                (Count(trace, "save_data") = 0 /\ db = dbAtStart)
    /\ \A s \in {"extract_audio", "get_metadata", "transcribe_audio",
                 "parse_gps_file", "get_checksum_video", "get_checksum_audio",
                 "to_dict"} : Count(trace, s) <= 1
    /\ Count(trace, "get_thumbnail") <= Len(locals.text_segments)

\* A run on a database that already holds rows got through its two
\* thumbnails, failed in parse_gps_file and committed nothing.
C5_Witness ==
    /\ pc = "failed"
    /\ locals.raised = <<"parse_gps_file">>
    /\ locals.thumbnails = 2
    /\ db # {}
    /\ db = dbAtStart

\* The calls of a run that transcribes n segments, in the order claimed.
ExpectedCalls(n) ==
    <<"extract_audio", "get_metadata", "transcribe_audio">>
    \o [k \in 1..n |-> "get_thumbnail"]
    \o <<"parse_gps_file", "get_checksum_video", "get_checksum_audio",
         "to_dict", "save_data">>

IsPrefix(short, long) ==
    /\ Len(short) <= Len(long)
    /\ \A k \in 1..Len(short) : short[k] = long[k]

\* C6: the stages of process_video run strictly in the order audio
\* extraction, metadata probe, transcription, one thumbnail per segment,
\* GPS parsing, video checksum, audio checksum, payload assembly, save_data.
C6_StagesInOrder ==
    /\ IsPrefix(trace, ExpectedCalls(Len(locals.text_segments)))
    /\ pc = "done" => trace = ExpectedCalls(Len(locals.text_segments))

\* A run with two segments made all its calls.
C6_Witness ==
    /\ pc = "done"
    /\ Len(locals.text_segments) = 2
    /\ Count(trace, "get_thumbnail") = 2
    /\ Len(trace) = 10

-----------------------------------------------------------------------------
(* Claims about WhisperConfig *)

\* C10: constructing a WhisperConfig with a model name outside the valid
\* set fails, and the download_location directory is not created.
C10_InvalidModelFailsBeforeIO ==
    (cfg # NoConfig /\ cfg.model_name \notin valid_model_names) =>
        (cfg.exc = "ValueError" /\ "makedirs" \notin Range(cfg.fsops))

-----------------------------------------------------------------------------
(* Claims about the run configuration *)

\* C11: a GPS variant other than TRACK_ADDICT is rejected when the
\* EndToEndConfig is constructed, before any I/O: a process_video run with
\* such a tag makes no audio extraction, metadata probe, transcription or
\* thumbnail call before it fails.
C11_UnsupportedVariantRejectedBeforeIO ==
    (job_config # NoJob /\ job_config.source_video_type # "TRACK_ADDICT") =>
        /\ job_config.exc # "none"
        /\ \A s \in {"extract_audio", "get_metadata", "transcribe_audio",
                     "get_thumbnail"} : Count(trace, s) = 0

-----------------------------------------------------------------------------
(* Claims about the media functions *)

\* C12: extract_audio with overwrite=False runs no extraction and leaves
\* the destination as it is whenever a file exists at audio_path, whatever
\* it holds; it runs the extraction when there is no file there or when
\* overwrite=True; it raises FileNotFoundError when video_path is missing,
\* also when the audio file exists.
C12_ExtractAudioSkipsExisting ==
    [][ret'.op = "extract_audio" =>
          LET v == ret'.video_path
              a == ret'.audio_path
          IN /\ ~exists(v, files) =>
                   (ret'.exc = "FileNotFoundError" /\ ~ret'.ran /\ files' = files)
             /\ (exists(v, files) /\ exists(a, files) /\ ~ret'.overwrite) =>
                   (ret'.exc = "none" /\ ~ret'.ran /\ files' = files)
             /\ (exists(v, files) /\ (~exists(a, files) \/ ret'.overwrite)) =>
                   ret'.ran]_vars

\* A call with overwrite=False found an audio file that does not hold the
\* audio stream of the video, and returned without running the extraction.
C12_Witness ==
    /\ ret.op = "extract_audio"
    /\ ret.video_path = "video.mp4"
    /\ ret.audio_path = "audio.mp3"
    /\ ~ret.overwrite
    /\ ret.exc = "none"
    /\ ~ret.ran
    /\ exists("video.mp4", files)
    /\ exists("audio.mp3", files)
    /\ files["audio.mp3"] # Some(AudioStream(files["video.mp4"][1]))

-----------------------------------------------------------------------------
(* Claims about the thumbnails *)

\* The thumbnail calls that returned in the present run.
ThumbnailsTaken ==
    Count(trace, "get_thumbnail")
        - (IF "get_thumbnail" \in Range(locals.raised) THEN 1 ELSE 0)

\* C13: process_video calls get_thumbnail once per segment returned by the
\* transcription, with the video path, job_config.thumbnail_width and the
\* start time of that segment, and stores the result under the "thumbnail"
\* key of that segment; no call is made for no segments, and every segment
\* handed to save_data carries its thumbnail.
C13_OneThumbnailPerSegment ==
    LET ts == locals.text_segments
    IN /\ Count(trace, "get_thumbnail") <= Len(ts)
       /\ \A i \in 1..Len(ts) :
             ts[i].thumbnail =
                IF i <= ThumbnailsTaken
                THEN Some([video |-> "video.mp4",
                           width |-> job_config.thumbnail_width,
                           time |-> ts[i].start])
                ELSE None
       /\ Count(trace, "parse_gps_file") > 0 =>
             (Count(trace, "get_thumbnail") = Len(ts) /\ ThumbnailsTaken = Len(ts))
       /\ Count(trace, "save_data") > 0 =>
             \A i \in 1..Len(ts) : ts[i].thumbnail # None

\* A run configured with a width of 150 handed two segments to save_data,
\* taken at different times, each with its thumbnail.
C13_Witness ==
    /\ pc = "done"
    /\ job_config.thumbnail_width = 150
    /\ Len(locals.text_segments) = 2
    /\ locals.text_segments[1].start # locals.text_segments[2].start
    /\ locals.text_segments[1].thumbnail # locals.text_segments[2].thumbnail
    /\ \A i \in 1..2 : locals.text_segments[i].thumbnail # None

-----------------------------------------------------------------------------
(* Claims about the word tokens *)

IsTranscript == ret.op = "transcribe_audio_whisper"

\* The word token the engine returned and the word returned for it.
WordIn == ret.segments[1].words[1]
WordOut == ret.value[1].words[1]

Kept(c) ==
    c = "'" \/ (c \notin Range(punctuation) /\ c \notin Range(whitespace))

\* C14: the normalized "word" is the engine's word without its characters
\* of string.punctuation other than the apostrophe and without its
\* whitespace characters, wherever they stand, apostrophes kept; start,
\* end and probability are as the engine returned them.
C14_WordNormalized ==
    IsTranscript =>
        /\ WordOut.word = SelectSeq(WordIn.word, Kept)
        /\ DOMAIN WordOut = {"word", "start", "end", "probability"}
        /\ WordOut.start = WordIn.start
        /\ WordOut.end = WordIn.end
        /\ WordOut.probability = WordIn.probability

\* The token "a '" with a blank inside came back as "a'".
C14_Witness ==
    /\ IsTranscript
    /\ WordIn.word = <<"a", " ", "'">>
    /\ WordOut.word = <<"a", "'">>

OnlyOf(word, chars) == word # <<>> /\ \A k \in 1..Len(word) : word[k] \in chars

\* C15 as claimed: every word token that consists only of punctuation
\* characters normalizes to the empty string.
C15_PunctuationOnlyIsEmpty ==
    (IsTranscript /\ OnlyOf(WordIn.word, Range(punctuation))) =>
        WordOut.word = <<>>

\* C15 as amended: every word token that consists only of punctuation
\* characters other than the apostrophe normalizes to the empty string.
C15_PunctuationButApostropheIsEmpty ==
    (IsTranscript /\ OnlyOf(WordIn.word, Range(punctuation) \ {"'"})) =>
        WordOut.word = <<>>

\* The token ",!" came back empty.
C15_Witness ==
    /\ IsTranscript
    /\ WordIn.word = <<",", "!">>
    /\ WordOut.word = <<>>

-----------------------------------------------------------------------------
(* Claims about the GPS parser *)

IsGpsCall == ret.op = "parse_gps_file"

\* The header names every column of a TrackAddict log.
HasTrackAddictColumns(content) ==
    \A c \in {"Time", "UTC Time", "Latitude", "Longitude", "Altitude (m)",
              "Speed (Km/h)"} : c \in Range(content.header)

CanonicalOf ==
    {<<"Time", "relative_time">>, <<"UTC Time", "utc_time">>,
     <<"Latitude", "latitude">>, <<"Longitude", "longitude">>,
     <<"Altitude (m)", "altitude_m">>, <<"Speed (Km/h)", "speed_kmh">>}

\* The value `out` is the number `cell`; in a single precision column it
\* may be the neighbour a number of more than 24 bits is rounded to.
SameNumber(name, out, cell) ==
    \/ out = cell
    \/ /\ name \in {"altitude_m", "speed_kmh"}
       /\ cell >= 2^24
       /\ out - cell \in {-1, 1}

\* C17: for a log with the columns Time, UTC Time, Latitude, Longitude,
\* Altitude (m), Speed (Km/h) the output has exactly the columns
\* relative_time, utc_time, latitude, longitude, altitude_m, speed_kmh, in
\* that correspondence, one row per data row in the same order, and no
\* other column of the source.
C17_GpsColumnsMapped ==
    (IsGpsCall /\ ret.video_type = "TRACK_ADDICT" /\ exists("gps.csv", files)
        /\ HasTrackAddictColumns(files["gps.csv"][1])) =>
        LET content == files["gps.csv"][1]
            data == DataLines(content)
            frame == ret.frame[1]
            names == {m[2] : m \in CanonicalOf}
        IN /\ ret.exc = "none"
           /\ Range(frame.columns) = names
           /\ Len(frame.columns) = 6
           /\ Len(frame.rows) = Len(data)
           /\ \A k \in 1..Len(data) :
                 /\ DOMAIN frame.rows[k] = names
                 /\ \A m \in CanonicalOf :
                       SameNumber(m[2], frame.rows[k][m[2]],
                                  data[k].cells[Position(content.header, m[1])])

\* A log of eight columns with the second row written before the first
\* came back as two rows of six columns in that order, the altitude of
\* more than 24 bits rounded.
C17_Witness ==
    /\ IsGpsCall
    /\ ret.exc = "none"
    /\ Len(files["gps.csv"][1].header) = 8
    /\ Len(ret.frame[1].rows) = 2
    /\ ret.frame[1].rows[1].relative_time > ret.frame[1].rows[2].relative_time
    /\ ret.frame[1].rows[1].latitude # ret.frame[1].rows[1].longitude
    /\ ret.frame[1].rows[1].altitude_m = 2^24

-----------------------------------------------------------------------------
(* Claims about transcribe_audio *)

\* C18: transcribe_audio, called with a WhisperConfig, raises ImportError
\* when whisper cannot be imported and FileNotFoundError when the audio
\* file is missing, the import being tried first; in both cases no model
\* is loaded, no segments are returned and the process_video run that
\* made the call commits nothing.
C18_TranscriptionErrorsAreFatal ==
    [][(pc = "transcribe_audio" /\ pc' # "transcribe_audio"
           /\ job_config.transcription_config # None) =>
          /\ ~whisper => locals'.exc = "ImportError"
          /\ (whisper /\ ~exists("audio.mp3", files)) =>
                locals'.exc = "FileNotFoundError"
          /\ (~whisper \/ ~exists("audio.mp3", files)) =>
                /\ pc' = "failed"
                /\ locals'.raised = <<"transcribe_audio">>
                /\ ~locals'.load_model
                /\ locals'.text_segments = <<>>
                /\ Count(trace', "save_data") = 0
                /\ db' = dbAtStart']_vars

\* After a run that committed, a run found its audio file gone when it
\* came to transcribe, and left the database as it was.
C18_Witness ==
    /\ pc = "failed"
    /\ locals.raised = <<"transcribe_audio">>
    /\ locals.exc = "FileNotFoundError"
    /\ ~locals.load_model
    /\ db # {}
    /\ db = dbAtStart

-----------------------------------------------------------------------------
(* Claims about get_checksum *)

IsChecksum == ret.op = "get_checksum"

\* C19: the digest get_checksum returns depends on the bytes of the file
\* only: it is the digest returned before for the same bytes, under the
\* same name or another; a missing path raises FileNotFoundError and no
\* digest is returned.
C19_ChecksumOfBytesOnly ==
    IsChecksum =>
        /\ ~exists(ret.file_name, files) =>
              (ret.exc = "FileNotFoundError" /\ ret.value = None)
        /\ exists(ret.file_name, files) =>
              (ret.exc = "none" /\ ret.value # None
                  /\ ret.data = files[ret.file_name])
        /\ (ret.exc = "none" /\ ret.earlier # None
               /\ ret.earlier[1].data = ret.data[1]) =>
              ret.value[1] = ret.earlier[1].value

\* Two files of the same two bytes under different names were
\* fingerprinted one after the other, with the same digest.
C19_Witness ==
    /\ IsChecksum
    /\ ret.exc = "none"
    /\ ret.earlier # None
    /\ ret.earlier[1].file_name # ret.file_name
    /\ ret.earlier[1].data = ret.data[1]
    /\ Len(ret.data[1]) = 2
    /\ ret.value[1] = ret.earlier[1].value

-----------------------------------------------------------------------------
(* Claims about concurrent ingestion *)

AllDone == \A w \in Workers : tx.run[w].pc = "done"

\* Rows without the identity values the database generated.
Anonymous(rows) == {[o EXCEPT !.id = 0] : o \in rows}

\* The rows the save_data call of worker w adds when it runs alone on a
\* database that holds `rows`.
AddedBy(w, rows) ==
    LET payload == tx.run[w].payload
        v == get_video(None, Some(payload.vcs), rows)
        a == get_audio(None, Some(payload.acs), rows)
    IN Range(Constructions(w, payload, v.row, a.row))

OneAfterTheOther(first, second) ==
    LET rows == tx.db0 \cup AddedBy(first, tx.db0)
    IN rows \cup AddedBy(second, rows)

\* The rows of worker w hang under the video and the audio of its file.
AttachedToOwn(w) ==
    LET payload == tx.run[w].payload
        own(kind) == {o \in RowsOf(db, kind) : o.run = w}
        videos == {o \in RowsOf(db, "video") : o.checksum = payload.vcs}
        audios == {o \in RowsOf(db, "audio") : o.checksum = payload.acs}
    IN /\ Cardinality(videos) = 1
       /\ Cardinality(audios) = 1
       /\ Cardinality(own("transcription")) = 1
       /\ \A t \in own("transcription") : \E a \in audios : t.parent = Key(a)
       /\ \A a \in own("audio") : \E v \in videos : a.parent = Key(v)
       /\ Cardinality(own("gps")) = payload.ngps
       /\ \A g \in own("gps") : \E v \in videos : g.parent = Key(v)
       /\ Cardinality(own("text_segment")) = Len(payload.segs)
       /\ \A ts \in own("text_segment") :
             /\ \E t \in own("transcription") : ts.parent = Key(t)
             /\ Cardinality({ws \in own("word_segment") : ws.parent = Key(ts)})
                   = payload.segs[ts.i]
       /\ \A ws \in own("word_segment") :
             \E ts \in own("text_segment") : ws.parent = Key(ts)

\* C20: two save_data calls for two different files, each on a Repository
\* of its own, interleaved in any way, leave the rows that the two calls
\* leave when one runs after the other (generated identity values apart,
\* which are distinct), the rows of each call under the Video and the
\* Audio of its own file.
C20_ConcurrentIngestionSafe ==
    AllDone =>
        /\ Anonymous(db) = Anonymous(OneAfterTheOther(1, 2))
        /\ Anonymous(db) = Anonymous(OneAfterTheOther(2, 1))
        /\ \A w \in Workers : AttachedToOwn(w)
        /\ \A o1, o2 \in RowsOf(db, "video") \cup RowsOf(db, "audio") :
              (o1.kind = o2.kind /\ o1.id = o2.id) => o1 = o2

\* Both calls inserted a new video and a new audio, their INSERTs
\* interleaved: one call holds the older video and the younger audio.
C20_Witness ==
    /\ AllDone
    /\ \E v1, v2 \in RowsOf(db, "video"), a1, a2 \in RowsOf(db, "audio") :
          /\ v1.run = 1 /\ a1.run = 1 /\ v2.run = 2 /\ a2.run = 2
          /\ v1.id < v2.id
          /\ a1.id > a2.id
    /\ RowsOf(db, "word_segment") # {}

-----------------------------------------------------------------------------
(* Claims about the statements run outside the session *)

ScriptRuns(call) ==
    \E k \in 1..Len(call.executed) : call.executed[k].sql = "DDL"

\* C21: drop_and_create runs the schema-reset script only when its flag is
\* true, and runs it then; with the flag false it runs no statement and
\* leaves the database as it is; constructing a Repository with a
\* DROP_AND_CREATE_DANGER that is false (or None) runs no statement and
\* leaves the database as it is.
C21_ResetOnlyWhenConfirmed ==
    [][/\ ret'.op = "drop_and_create" =>
             /\ ScriptRuns(ret') => ret'.flag
             /\ (ret'.flag /\ ret'.fault # "execute") => ScriptRuns(ret')
             /\ ~ret'.flag =>
                   /\ ret'.log = <<>>
                   /\ ret'.executed = <<>>
                   /\ ret'.exc = "none"
                   /\ db' = db
                   /\ nextId' = nextId
       /\ (ret'.op = "Repository" /\ ret'.danger # Some(TRUE)) =>
             /\ ret'.log = <<>>
             /\ ret'.executed = <<>>
             /\ db' = db
             /\ nextId' = nextId]_vars

\* drop_and_create was called with a false flag on a database that holds
\* rows: no statement ran and the rows are there.
C21_Witness ==
    /\ ret.op = "drop_and_create"
    /\ ~ret.flag
    /\ ret.log = <<>>
    /\ db = IngestedBefore

\* C30: execute_update runs its statement in a transaction of its own: it
\* commits when the statement succeeds; when the statement or the commit
\* raises, it rolls back, the exception raised leaves the call and the
\* database is as it was before the call.
C30_ExecuteUpdateTransactional ==
    [][ret'.op = "execute_update" =>
          LET out == Execute(ret'.statement, Database(db, nextId))
              raised == IF ret'.fault = "execute" THEN "OperationalError"
                        ELSE IF out.exc # "none" THEN out.exc
                        ELSE IF ret'.fault = "commit" THEN "OperationalError"
                        ELSE "none"
          IN /\ ret'.exc = raised
             /\ ret'.log[1] = "begin"
             /\ raised = "none" =>
                   /\ ret'.log = <<"begin", "execute", "commit">>
                   /\ db' = out.rows
                   /\ nextId' = out.nextId
             /\ raised # "none" =>
                   /\ ret'.log[Len(ret'.log)] = "rollback"
                   /\ db' = db
                   /\ nextId' = nextId]_vars

\* A DELETE of the GPS rows went through and the commit failed: the rows
\* are still there.
C30_Witness ==
    /\ ret.op = "execute_update"
    /\ ret.statement.sql = "DELETE"
    /\ ret.statement.table = "gps"
    /\ ret.fault = "commit"
    /\ ret.exc = "OperationalError"
    /\ ret.log = <<"begin", "execute", "commit", "rollback">>
    /\ RowsOf(db, "gps") # {}

-----------------------------------------------------------------------------
(* Claims about save_clip *)

\* C22: save_clip raises FileNotFoundError when video_path does not exist
\* and ValueError when start is negative, when start is greater than end
\* and when end - start is less than one second; in each of these cases
\* no clip is written to output_path.
C22_SaveClipRejectsInvalid ==
    [][ret'.op = "save_clip" =>
          LET missing == ~exists(ret'.video_path, files)
              invalid == \/ ret'.start < 0
                         \/ ret'.start > ret'.end
                         \/ ret'.end - ret'.start < OneSecond
          IN /\ missing => ret'.exc = "FileNotFoundError"
             /\ (~missing /\ invalid) => ret'.exc = "ValueError"
             /\ (missing \/ invalid) => (~ret'.written /\ files' = files)]_vars

-----------------------------------------------------------------------------
(* Claims about the rows save_data links *)

\* C23: after every successful commit, the Transcription of the call
\* belongs to an Audio whose parent Video is the Video that the GPS rows of
\* the call are linked to, also when the audio checksum is in the database
\* and the video checksum is new.
C23_AudioUnderResolvedVideo ==
    \A t \in Committed("transcription"), a \in Committed("audio"),
       g \in Committed("gps") :
        (t.run \in OkCalls /\ t.parent = Key(a) /\ g.run = t.run) =>
            a.parent = g.parent

-----------------------------------------------------------------------------
(* Claims about the rows a run commits *)

\* The save_data call of the run returns.
Saves == pc = "save_data" /\ pc' = "done"

\* The rows of a table that the r-th call of save_data built.
BuiltBy(rows, kind, r) == {o \in rows : o.kind = kind /\ o.run = r}

\* C24: save_data creates one TextSegment per payload segment, in payload
\* order, all linked to the new Transcription of the call, and one
\* WordSegment per payload word, in payload order, each linked to the
\* TextSegment of the segment that holds it; a segment without words gets
\* a TextSegment and no WordSegment.
C24_SegmentRowsFollowPayload ==
    [][Saves =>
          LET r == Len(calls')
              segs == locals.text_segments
              made == BuiltBy(db', "transcription", r)
              texts == BuiltBy(db', "text_segment", r)
              words == BuiltBy(db', "word_segment", r)
              under(i) == {w \in words : w.parent = <<"text_segment", r, i, 0>>}
          IN /\ Cardinality(made) = 1
             /\ made \cap db = {}
             /\ Cardinality(texts) = Len(segs)
             /\ {o.i : o \in texts} = 1..Len(segs)
             /\ \A o \in texts : \A t \in made : o.parent = Key(t)
             /\ \A i \in 1..Len(segs) :
                   /\ Cardinality(under(i)) = segs[i].words
                   /\ {w.j : w \in under(i)} = 1..segs[i].words
                   /\ \A w \in under(i) : w.i = i
             /\ words = UNION {under(i) : i \in 1..Len(segs)}]_vars

\* A run committed a segment of two words and a segment without words:
\* two TextSegment rows, two WordSegment rows under the first of them.
C24_Witness ==
    /\ pc = "done"
    /\ Len(locals.text_segments) = 2
    /\ locals.text_segments[2].words = 0
    /\ Cardinality(BuiltBy(db, "text_segment", Len(calls))) = 2
    /\ Cardinality(BuiltBy(db, "word_segment", Len(calls))) = 2
    /\ \A w \in BuiltBy(db, "word_segment", Len(calls)) :
          w.parent = <<"text_segment", Len(calls), 1, 0>>


\* The Video rows with the checksum the run hands to save_data.
ResolvedVideos(rows) ==
    {v \in RowsOf(rows, "video") : v.checksum = locals.video_checksum}

\* The GPS rows linked to one of the videos.
LinkedGps(rows, videos) ==
    {g \in RowsOf(rows, "gps") : \E v \in videos : g.parent = Key(v)}

NoCallFailed == \A k \in 1..Len(calls') : calls'[k] = "none"

-----------------------------------------------------------------------------
(* Claims about the rows save_data leaves alone *)

\* The row n is a stored version of the row o: it has its key or its id.
VersionOf(n, o) ==
    Key(n) = Key(o) \/ (n.kind = o.kind /\ n.id = o.id /\ o.id # 0)

\* C26: save_data edits and deletes no committed row: a Video or Audio row
\* whose checksum the payload carries keeps its id, file name and parent
\* link, whatever the payload supplies, and every row committed before a
\* call is there, unchanged, after it.
C26_CommittedRowsKept ==
    [][/\ db \subseteq db'
       /\ \A n \in db' \ db : \A o \in db : ~VersionOf(n, o)]_vars

\* A second call carried the checksums of the first under other file
\* names: the Video and the Audio are the rows of the first call with its
\* file name, and the rows of the second call hang under them.
C26_Witness ==
    /\ calls = <<"none", "none">>
    /\ \E v \in Committed("video"), a \in Committed("audio") :
          /\ Committed("video") = {v}
          /\ Committed("audio") = {a}
          /\ v.filename = FileNames[1]
          /\ a.filename = FileNames[1]
          /\ a.parent = Key(v)
          /\ \E t \in Committed("transcription") : t.run = 2 /\ t.parent = Key(a)
          /\ \E g \in Committed("gps") : g.run = 2 /\ g.parent = Key(v)

-----------------------------------------------------------------------------
(* Claims about the segments of a transcript *)

PersistedOf(kind) == SelectSeq(ret.persisted, LAMBDA o : o.kind = kind)

\* C27: the persisted TextSegment rows of a Transcription are in
\* non-decreasing order of start time, and every persisted TextSegment and
\* WordSegment has a start time that is at most its end time.
C27_SegmentTimesOrdered ==
    (ret.op = "save_data" /\ ret.exc = "none") =>
        /\ \A k \in 1..(Len(PersistedOf("text_segment")) - 1) :
              PersistedOf("text_segment")[k].start_time
                 <= PersistedOf("text_segment")[k + 1].start_time
        /\ \A k \in 1..Len(ret.persisted) :
              ret.persisted[k].start_time <= ret.persisted[k].end_time

DroppedKeys ==
    {"id", "seek", "tokens", "temperature", "avg_logprob", "compression_ratio"}

\* C28: every segment transcribe_audio_whisper returns has the keys start,
\* end, text and no_speech_prob that the engine's segment has, with the
\* engine's values, and the key words, and no other key of the engine's
\* segment; the segments are as many as the engine's and in its order.
C28_SegmentKeysFiltered ==
    ret.op = "transcribe_audio_whisper" =>
        /\ Len(ret.value) = Len(ret.segments)
        /\ \A i \in 1..Len(ret.segments) :
              LET heard == ret.segments[i]
                  out == ret.value[i]
              IN /\ DOMAIN out =
                       (DOMAIN heard \cap {"start", "end", "text", "no_speech_prob"})
                          \cup {"words"}
                 /\ DOMAIN out \cap DroppedKeys = {}
                 /\ \A k \in DOMAIN out \ {"words"} : out[k] = heard[k]
                 /\ Len(out.words) = Len(heard.words)

\* Two segments came back in the engine's order, the later one first, the
\* second without the no_speech_prob the engine did not set.
C28_Witness ==
    /\ ret.op = "transcribe_audio_whisper"
    /\ Len(ret.value) = 2
    /\ ret.value[1].start > ret.value[2].start
    /\ "avg_logprob" \in DOMAIN ret.segments[1]
    /\ DOMAIN ret.value[1] = {"start", "end", "text", "no_speech_prob", "words"}
    /\ DOMAIN ret.value[2] = {"start", "end", "text", "words"}

-----------------------------------------------------------------------------
(* Claims about LogTime *)

\* The records the block just run added to the log.
LoggedByBlock == SubSeq(ret'.log, Len(LoggedSoFar) + 1, Len(ret'.log))

\* C29: an exception raised inside a LogTime block leaves the with
\* statement unchanged after one start record and one FATAL record that
\* names it, and no completion record; a block that returns logs one
\* start record and one completion record, and nothing is raised.
C29_LogTimeKeepsControlFlow ==
    [][ret'.op = "LogTime" =>
          LET logged == LoggedByBlock
          IN /\ Len(logged) = 2
             /\ logged[1] = [level |-> "INFO", msg |-> "Starting",
                             about |-> ret'.task_str]
             /\ ret'.body # None =>
                   /\ ret'.exc = ret'.body
                   /\ logged[2].level = "FATAL"
                   /\ logged[2].about = ret'.body[1]
                   /\ \A k \in 1..2 : logged[k].msg # "Completed"
             /\ ret'.body = None =>
                   /\ ret'.exc = None
                   /\ logged[2] = [level |-> "INFO", msg |-> "Completed",
                                   about |-> ""]]_vars

\* After a block that returned, a block raised FileNotFoundError: four
\* records, the last one FATAL, and the exception left the statement.
C29_Witness ==
    /\ ret.op = "LogTime"
    /\ ret.blocks = 2
    /\ ret.exc = Some("FileNotFoundError")
    /\ Len(ret.log) = 4
    /\ ret.log[2].msg = "Completed"
    /\ ret.log[4].level = "FATAL"

====
